---------------------------- MODULE Spec2Model ----------------------------
(***************************************************************************)
(* D-Calculator 1.0.0: the expression transducer inputx, the formatter     *)
(* better and the evaluation of the string inputx builds.                  *)
(*                                                                         *)
(* Strings are sequences of one-character strings.  The frame of one call  *)
(* of inputx is the record loc; the for-loop of inputx advances one        *)
(* character per step.  A direct call of a library function is the record  *)
(* lib: the function, its arguments and what the call gave.  The main loop *)
(* keeps the mode chosen and the settings s, DTip, DTop, DTfop and Ans.    *)
(***************************************************************************)
EXTENDS Integers, Sequences, FiniteSets, TLC

VARIABLES pc, x, pos, loc, tout, val, bbmdt, Ans, s, calls, shown, origin, prev, lib,
          mode, DTip, DTop, DTfop, srch

vars == <<pc, x, pos, loc, tout, val, bbmdt, Ans, s, calls, shown, origin, prev, lib,
          mode, DTip, DTop, DTfop, srch>>

-----------------------------------------------------------------------------
(* Character classes and literal tables of inputx *)

Digits == {"0", "1", "2", "3", "4", "5", "6", "7", "8", "9"}

FnLetters == {"s", "i", "n", "c", "o", "t", "a", "h", "r", "l", "g", "b"}

Alphabet == Digits \cup {"A", "p", "e", "(", ")", ".", ",", "^", "+", "-", "*", "/", "!", "C", "P"}
              \cup FnLetters

FnStart == {"s", "c", "t", "a", "l"}

AfterBang == {"+", "-", "*", "/", "^", ")", "P", "C"}

BeforeConst == {"", "+", "-", "*", "/", "^", "(", "P", "C", "n", "s", "h", "g"}

NamesOpen == { <<"a","r","c","s","i","n">>, <<"a","r","c","c","o","s">>, <<"a","r","c","t","a","n">>,
               <<"a","r","s","i","n","h">>, <<"a","r","c","o","s","h">>, <<"a","r","t","a","n","h">>,
               <<"l","g">>, <<"l","n">>, <<"s","g","n">>, <<"a","b","s">> }

NamesTrig == { <<"s","i","n">>, <<"c","o","s">>, <<"t","a","n">> }

NameLog == <<"l","o","g">>

NamesLegal == NamesOpen \cup NamesTrig \cup
              { <<"s","i","n","h">>, <<"c","o","s","h">>, <<"t","a","n","h">>, NameLog }

DC == <<"D", "C">>

(* str(pi) and str(e) for the series values the module computes at load *)
PiStr == <<"3",".","1","4","1","5","9","2","6","5","3","5","8","9","7","9","4","4">>

EStr == <<"2",".","7","1","8","2","8","1","8","2","8","4","5","9","0","4","5","5">>

-----------------------------------------------------------------------------
(* Generic string helpers *)

Rep(c, n) == [j \in 1..n |-> c]

Reverse(q) == [k \in 1..Len(q) |-> q[Len(q) + 1 - k]]

Count(q, c) == Cardinality({k \in 1..Len(q) : q[k] = c})

HasAt(q, k, w) == /\ k + Len(w) - 1 <= Len(q)
                  /\ \A j \in 1..Len(w) : q[k + j - 1] = w[j]

Contains(q, w) == \E k \in 1..Len(q) : HasAt(q, k, w)

(* str.replace from position k on: the matches are taken left to right *)
RECURSIVE ReplaceFrom(_, _, _, _)
ReplaceFrom(q, k, old, new) ==
    LET at == {j \in k..Len(q) : HasAt(q, j, old)}
    IN  IF at = {} THEN SubSeq(q, k, Len(q))
        ELSE LET m == CHOOSE j \in at : \A h \in at : j <= h
             IN  SubSeq(q, k, m - 1) \o new \o ReplaceFrom(q, m + Len(old), old, new)

Replace(q, old, new) == ReplaceFrom(q, 1, old, new)


-----------------------------------------------------------------------------
(* Numbers.  A finite number the model follows exactly is the decimal      *)
(* m * 10^e, kept normalised (m has no trailing zero; zero is m = 0,       *)
(* e = 0).  "real" is a finite number the model does not follow, "nan" the *)
(* NaN sentinel, "err" a raised exception, "DC" the failure marker.        *)

(* 10^n for n up to 9, the powers a 32-bit integer holds *)
Pow10(n) == IF n <= 0 THEN 1
            ELSE <<10, 100, 1000, 10000, 100000, 1000000, 10000000, 100000000,
                   1000000000>>[n]

(* the trailing zeros of m, for m # 0 *)
Zeros(m) == CHOOSE j \in 0..9 : m % Pow10(j) = 0 /\ (j = 9 \/ m % Pow10(j + 1) # 0)

Norm(m, e) == IF m = 0 THEN [k |-> "num", m |-> 0, e |-> 0]
              ELSE [k |-> "num", m |-> m \div Pow10(Zeros(m)), e |-> e + Zeros(m)]

Real == [k |-> "real", m |-> 0, e |-> 0]

NaN == [k |-> "nan", m |-> 0, e |-> 0]

Err == [k |-> "err", m |-> 0, e |-> 0]

Unknown == [k |-> "unk", m |-> 0, e |-> 0]

DCval == [k |-> "DC", m |-> 0, e |-> 0]

Abs(n) == IF n < 0 THEN 0 - n ELSE n

DigitChar(d) == <<"0", "1", "2", "3", "4", "5", "6", "7", "8", "9">>[d + 1]

DigitVal(c) == CHOOSE d \in 0..9 : DigitChar(d) = c

(* the decimal digits of a natural number *)
DigitsOf(n) ==
    LET len == CHOOSE j \in 1..10 : (j = 10 \/ n < Pow10(j)) /\ (j = 1 \/ n >= Pow10(j - 1))
    IN  [j \in 1..len |-> DigitChar((n \div Pow10(len - j)) % 10)]

SignText(m) == IF m < 0 THEN <<"-">> ELSE <<>>

(* str() of a Python int *)
StrInt(v) == SignText(v.m) \o DigitsOf(Abs(v.m)) \o Rep("0", v.e)

(* str() of a Python float: positional for 1e-4 <= |v| < 1e16, else exponent form *)
StrFloat(v) ==
    LET d == DigitsOf(Abs(v.m))
        n == Len(d)
        X == n + v.e - 1
        ex == DigitsOf(Abs(X))
    IN  IF v.m = 0 THEN <<"0", ".", "0">>
        ELSE IF X >= -4 /\ X < 16
        THEN IF v.e >= 0 THEN SignText(v.m) \o d \o Rep("0", v.e) \o <<".", "0">>
             ELSE IF n + v.e > 0
             THEN SignText(v.m) \o SubSeq(d, 1, n + v.e) \o <<".">> \o SubSeq(d, n + v.e + 1, n)
             ELSE SignText(v.m) \o <<"0", ".">> \o Rep("0", 0 - (n + v.e)) \o d
        ELSE SignText(v.m) \o <<d[1]>>
             \o (IF n > 1 THEN <<".">> \o SubSeq(d, 2, n) ELSE <<>>)
             \o <<"e", IF X < 0 THEN "-" ELSE "+">>
             \o (IF Len(ex) < 2 THEN <<"0">> \o ex ELSE ex)

(* str(Ans): Ans is the int 0 until mode r1 stores a float *)
AnsText(a) == IF a.int THEN StrInt(a.val) ELSE StrFloat(a.val)

-----------------------------------------------------------------------------
(* Arithmetic on the values the evaluation can produce.                    *)
(*   "num"  the decimal m * 10^e, followed exactly                         *)
(*   "real" a finite number not followed: m is its sign (0: not known,     *)
(*          possibly zero), e = 1 when its magnitude is at most 10^10      *)
(*   "nan"  the NaN sentinel         "err"  an exception was raised        *)
(*   "fn"   a function object        "tup"  a tuple, or an exception       *)
(*   "unk"  the outcome is not determined at this precision                *)

(* decimals up to 10^MaxMag are well inside the float range *)
MaxMag == 300

One == Norm(1, 0)

Zero == Norm(0, 0)

Fn == [k |-> "fn", m |-> 0, e |-> 0]

Tup == [k |-> "tup", m |-> 0, e |-> 0]

RealOf(sign, bounded) == [k |-> "real", m |-> sign, e |-> IF bounded THEN 1 ELSE 0]

Sgn(n) == IF n > 0 THEN 1 ELSE IF n < 0 THEN 0 - 1 ELSE 0

NDig(n) == Len(DigitsOf(Abs(n)))

(* v < 10^Mag(v) in magnitude *)
Mag(v) == IF v.m = 0 THEN 0 ELSE NDig(v.m) + v.e

IsNum(v) == v.k = "num"

IsNumber(v) == v.k \in {"num", "real"}

SignKnown(v) == v.k = "num" \/ (v.k = "real" /\ v.m # 0)

SignOf(v) == IF v.k = "num" THEN Sgn(v.m) ELSE v.m

IsInt(v) == v.k = "num" /\ v.e >= 0

(* |v| <= 10^10 *)
Bounded(v) == IF v.k = "num" THEN Mag(v) <= 10 \/ (Abs(v.m) = 1 /\ v.e = 10) ELSE v.e = 1

(* the integer a small integral value stands for *)
IntVal(v) == v.m * Pow10(v.e)

Neg(v) == IF v.k \in {"num", "real"} THEN [v EXCEPT !.m = 0 - v.m] ELSE v

AbsVal(v) == IF v.k = "num" THEN [v EXCEPT !.m = Abs(v.m)]
             ELSE RealOf(IF v.m = 0 THEN 0 ELSE 1, v.e = 1)

(* a < b, a = b or a > b for two decimals: -1, 0, 1 *)
Cmp(a, b) ==
    IF Sgn(a.m) # Sgn(b.m) THEN (IF Sgn(a.m) < Sgn(b.m) THEN 0 - 1 ELSE 1)
    ELSE IF a.m = 0 THEN 0
    ELSE IF Mag(a) # Mag(b) THEN (IF Mag(a) < Mag(b) THEN 0 - Sgn(a.m) ELSE Sgn(a.m))
    ELSE LET n == IF NDig(a.m) > NDig(b.m) THEN NDig(a.m) ELSE NDig(b.m)
             x1 == a.m * Pow10(n - NDig(a.m))
             x2 == b.m * Pow10(n - NDig(b.m))
         IN  IF x1 < x2 THEN 0 - 1 ELSE IF x1 > x2 THEN 1 ELSE 0

(* what an arithmetic operator does before any arithmetic: exceptions win, *)
(* then the undetermined, then NaN                                         *)
Mixed(a, b) == IF a.k = "err" \/ b.k = "err" THEN Err
               ELSE IF a.k \in {"fn", "tup"} \/ b.k \in {"fn", "tup"} THEN Err
               ELSE IF a.k = "unk" \/ b.k = "unk" THEN Unknown
               ELSE NaN

Add(a, b) ==
    IF ~(IsNumber(a) /\ IsNumber(b))
    THEN (IF a.k = "tup" /\ b.k = "tup" THEN Tup ELSE Mixed(a, b))
    ELSE IF IsNum(a) /\ a.m = 0 THEN b
    ELSE IF IsNum(b) /\ b.m = 0 THEN a
    ELSE LET e0 == IF a.e < b.e THEN a.e ELSE b.e
             s1 == SignOf(a)
             s2 == SignOf(b)
         IN  IF IsNum(a) /\ IsNum(b) /\ NDig(a.m) + a.e - e0 <= 9 /\ NDig(b.m) + b.e - e0 <= 9
             THEN Norm(a.m * Pow10(a.e - e0) + b.m * Pow10(b.e - e0), e0)
             ELSE IF ~(Bounded(a) /\ Bounded(b)) THEN Unknown
             ELSE IF s1 = s2 THEN RealOf(s1, FALSE)
             ELSE IF IsNum(a) /\ IsNum(b) /\ Mag(a) # Mag(b)
             THEN RealOf(IF Mag(a) > Mag(b) THEN s1 ELSE s2, FALSE)
             ELSE RealOf(0, FALSE)

Sub(a, b) == IF IsNumber(a) /\ IsNumber(b) THEN Add(a, Neg(b)) ELSE Mixed(a, b)

(* a product below 10^-324 is less than half the least float 5e-324: the   *)
(* float product is 0.0                                                    *)
Underflows(a, b) == Mag(a) + Mag(b) <= 0 - MaxMag - 24

Mul(a, b) ==
    IF ~(IsNumber(a) /\ IsNumber(b))
    THEN (IF (a.k = "tup" /\ IsNum(b)) \/ (b.k = "tup" /\ IsNum(a)) THEN Tup ELSE Mixed(a, b))
    ELSE IF (IsNum(a) /\ a.m = 0) \/ (IsNum(b) /\ b.m = 0) THEN Zero
    ELSE IF IsNum(a) /\ IsNum(b) /\ Underflows(a, b) THEN Zero
    ELSE IF IsNum(a) /\ IsNum(b) /\ NDig(a.m) + NDig(b.m) <= 9 /\ Mag(a) + Mag(b) <= MaxMag
    THEN Norm(a.m * b.m, a.e + b.e)
    ELSE IF ~(Bounded(a) /\ Bounded(b)) THEN Unknown
    ELSE RealOf(SignOf(a) * SignOf(b), FALSE)

(* the least j with den | num * 10^j, or -1 *)
RECURSIVE ExactShift(_, _, _)
ExactShift(num, den, j) ==
    IF NDig(num) + j > 9 THEN 0 - 1
    ELSE IF (num * Pow10(j)) % den = 0 THEN j
    ELSE ExactShift(num, den, j + 1)

Div(a, b) ==
    IF ~(IsNumber(a) /\ IsNumber(b))
    THEN (IF IsNum(b) /\ b.m = 0 /\ a.k = "nan" THEN Err ELSE Mixed(a, b))
    ELSE IF IsNum(b) /\ b.m = 0 THEN Err
    ELSE IF ~SignKnown(b) THEN Unknown
    ELSE IF IsNum(a) /\ a.m = 0 THEN Zero
    ELSE LET sg == SignOf(a) * SignOf(b)
             j == ExactShift(Abs(a.m), Abs(b.m), 0)
         IN  IF IsNum(a) /\ IsNum(b) /\ j >= 0 /\ Mag(a) - Mag(b) <= MaxMag
             THEN Norm(sg * ((Abs(a.m) * Pow10(j)) \div Abs(b.m)), a.e - b.e - j)
             ELSE IF ~IsNum(b) \/ Mag(b) < 0 - MaxMag THEN Unknown
             ELSE IF ~Bounded(a) /\ Mag(b) < 1 THEN Unknown
             ELSE RealOf(sg, FALSE)

RECURSIVE PowNat(_, _)
PowNat(v, n) == IF n = 0 THEN One
                ELSE IF n % 2 = 1 THEN Mul(v, PowNat(v, n - 1))
                ELSE LET h == PowNat(v, n \div 2) IN Mul(h, h)

(* pow(v, n) for v > 0 or an integral n, as Python computes it *)
PowVal(v, n) ==
    IF IsInt(n) /\ Mag(n) <= 2
    THEN IF n.m >= 0 THEN PowNat(v, IntVal(n))
         ELSE IF IsNum(v) /\ v.m = 0 THEN Err
         ELSE Div(One, PowNat(v, 0 - IntVal(n)))
    ELSE IF SignOf(v) = 1 /\ Bounded(v) /\ IsNum(n) /\ Mag(n) <= 2 THEN RealOf(1, FALSE)
    ELSE IF IsNum(v) /\ v.m = 0 /\ SignOf(n) = 1 THEN Zero
    ELSE IF IsNum(v) /\ v.m < 0 /\ IsNum(n) /\ n.e < 0 THEN Err
    ELSE Unknown

(* the operator ** *)
PowOp(a, b) == IF IsNumber(a) /\ IsNumber(b) THEN PowVal(a, b)
               ELSE IF a.k = "nan" \/ b.k = "nan" THEN Mixed(a, Mixed(b, Unknown))
               ELSE Mixed(a, b)

-----------------------------------------------------------------------------
(* The frame of inputx after its local initialisations (lines 506-507).    *)
(* ci is "" , 1 or 2 in the source; 0 stands for "".  us is the local `_`. *)
(* i, ri and brk are the loop's current character, its replacement text    *)
(* and whether the iteration ended in `break`.  sn, stl0, stl1, stdt,      *)
(* stfdt and stout are the locals of the backward scan, unbound in the     *)
(* source until a postfix operator is met; sk is the position of that scan *)
(* in the reversed text, which the source keeps in out meanwhile (0 when   *)
(* no backward scan is running).                                           *)

InitFrame ==
    [li |-> "", ci |-> 0, legal |-> <<>>, fstr |-> <<>>, out |-> <<>>,
     l0 |-> 0, fdt |-> 0, strdt |-> 0, legaldt |-> 0, logdt |-> 0, f_jump |-> 0,
     liststr |-> 0, us |-> 0, kh |-> 0, khl0 |-> 0, jump |-> 0,
     fact1 |-> 0, fi1 |-> 0, fc1 |-> 0, fp1 |-> 0,
     sn |-> <<>>, stl0 |-> 0, stl1 |-> 0, stdt |-> 0, stfdt |-> 0, stout |-> <<>>, sk |-> 0,
     i |-> "", ri |-> <<>>, brk |-> FALSE]

Fail(f) == [f EXCEPT !.out = DC, !.brk = TRUE]

(* lines 520-530: the letters following 'p' and 'A' are checked and skipped *)
JumpSkip(f, c) ==
    IF \/ (f.jump = 1 /\ c # "i")
       \/ (f.jump = 10 /\ c # "n")
       \/ (f.jump = 9 /\ c # "s")
    THEN Fail(f)
    ELSE [f EXCEPT !.jump = f.jump - 1]

(* line 533 with its first half alone: '//' is let through *)
DoubleOpStar(f, c) == c = "*" /\ f.li = "*"

(* lines 533-535: two identical multiplicative operators in a row *)
DoubleOp(f, c) == (c = "*" /\ f.li = "*") \/ (c = "/" /\ f.li = "/")

(* lines 537-551: parenthesis depth and the constant triggers *)
Constants(f, c, ansText) ==
    IF c = "(" THEN [f EXCEPT !.i = c, !.ri = <<c>>, !.l0 = f.l0 + 1]
    ELSE IF c = ")" THEN [f EXCEPT !.i = c, !.ri = <<c>>, !.l0 = f.l0 - 1]
    ELSE IF c = "p" THEN [f EXCEPT !.jump = 1, !.i = "-1", !.ri = PiStr]
    ELSE IF c = "e" THEN [f EXCEPT !.i = "-1", !.ri = EStr]
    ELSE IF c = "A" THEN [f EXCEPT !.jump = 10, !.i = "-1", !.ri = ansText]
    ELSE [f EXCEPT !.i = c, !.ri = <<c>>]

Star(f) == [f EXCEPT !.ri = <<"*">> \o f.ri]

(* lines 552-571: implicit multiplication *)
ImplicitMul(f) ==
    LET a == IF f.li \in Digits /\ f.i \in (FnStart \cup {"("})
             THEN [Star(f) EXCEPT !.ci = 1] ELSE f
        b == IF a.li = ")" /\ a.i = "(" THEN Star(a) ELSE a
        c == IF b.i \in FnStart /\ b.li = ")" THEN [Star(b) EXCEPT !.ci = 1] ELSE b
        d == IF c.li = "!" /\ c.i \notin AfterBang THEN [Star(c) EXCEPT !.ci = 1] ELSE c
    IN  IF d.li = "-1" /\ d.i = "-1"
        THEN [Star(d) EXCEPT !.ci = 2]
        ELSE LET g == IF d.i = "-1" /\ d.li \notin BeforeConst THEN Star(d) ELSE d
             IN  IF g.li = "-1" /\ g.i \notin AfterBang
                 THEN [Star(g) EXCEPT !.ci = 2] ELSE g

(* "(" + ri, liststr += 1 *)
Inject(f) == [f EXCEPT !.ri = <<"(">> \o f.ri, !.liststr = f.liststr + 1]

Signed(f) == IF f.i \in {"+", "-"} THEN [f EXCEPT !.us = 1] ELSE f

(* lines 572-581: the character after sin/cos/tan *)
AfterTrig(f) ==
    IF f.strdt = 2
    THEN LET a == [f EXCEPT !.strdt = 1]
         IN  IF a.i = "h" THEN [a EXCEPT !.fdt = 1, !.f_jump = 1]
             ELSE IF a.i # "(" THEN Inject(Signed(a))
             ELSE a
    ELSE f

(* lines 582-592: the character after a name that opens directly, or after ^ C P *)
AfterOpen(f) ==
    IF f.f_jump = 0
    THEN IF f.fdt = 1
         THEN LET a == [f EXCEPT !.fdt = 0]
              IN  IF a.i # "("
                  THEN LET b == Signed(a)
                       IN  IF b.li \notin {"C", "P"} THEN Inject(b) ELSE b
                  ELSE a
         ELSE f
    ELSE [f EXCEPT !.f_jump = 0]

(* ")" * liststr + ri, liststr = 0 *)
Flush(f) == [f EXCEPT !.ri = Rep(")", f.liststr) \o f.ri, !.liststr = 0]

FinishSet(f) == IF f.logdt = 1 THEN {"+", "-", "*", "/", "C", "P", "^"}
                ELSE {"+", "-", "*", "/", "C", "P", ",", "^"}

(* lines 593-617: signed argument, signed parenthesised group, closing at an operator *)
CloseAtOperator(f) ==
    LET a == IF f.us = 1 /\ f.i \notin {"+", "-"}
             THEN [f EXCEPT !.us = 0, !.kh = IF f.i = "(" THEN 1 ELSE f.kh]
             ELSE f
    IN  IF a.kh = 1
        THEN IF a.i = "(" THEN [a EXCEPT !.khl0 = a.khl0 + 1]
             ELSE IF a.i = ")" THEN [a EXCEPT !.khl0 = a.khl0 - 1]
             ELSE a
        ELSE IF a.us = 0
             THEN IF a.strdt = 1 /\ a.i \in FinishSet(a)
                  THEN [Flush(a) EXCEPT !.strdt = 0]
                  ELSE a
             ELSE a

(* lines 618-627: closing at an implicit multiplication *)
CloseAtImplicit(f) ==
    LET a == IF f.strdt = 1 /\ f.ci = 1
             THEN [Flush(f) EXCEPT !.strdt = 0, !.logdt = 0] ELSE f
    IN  IF a.strdt = 1 /\ a.ci = 2
        THEN [Flush(a) EXCEPT !.strdt = 0, !.logdt = 0] ELSE a

(* lines 628-642: function-name accumulation and recognition *)
Recognize(f) ==
    LET a == IF f.i \in FnLetters THEN [f EXCEPT !.fstr = f.fstr \o <<f.i>>]
             ELSE IF f.i \in {"P", "C", "^"}
                  THEN [f EXCEPT !.fdt = 1, !.strdt = 1, !.liststr = 1]
                  ELSE f
    IN  IF a.fstr \in NamesOpen
        THEN [a EXCEPT !.fstr = <<>>, !.legal = <<>>, !.legaldt = 2, !.fdt = 1, !.strdt = 1]
        ELSE IF a.fstr \in NamesTrig
        THEN [a EXCEPT !.fstr = <<>>, !.legal = <<>>, !.legaldt = 2, !.strdt = 2]
        ELSE IF a.fstr = NameLog
        THEN [a EXCEPT !.fstr = <<>>, !.logdt = IF a.strdt = 1 THEN 1 ELSE a.logdt]
        ELSE a

(* lines 643-656 without the break of line 653: the run is forgotten *)
LegalCheckLax(f) ==
    IF f.legaldt = 2 THEN [f EXCEPT !.legaldt = 0]
    ELSE IF f.f_jump = 0
    THEN IF f.i \in FnLetters
         THEN [f EXCEPT !.legal = f.legal \o <<f.i>>, !.legaldt = 1]
         ELSE IF f.legaldt = 1 THEN [f EXCEPT !.legaldt = 0, !.legal = <<>>] ELSE f
    ELSE f

(* lines 643-656: a completed letter run must be a recognized name *)
LegalCheck(f) ==
    IF f.legaldt = 2 THEN [f EXCEPT !.legaldt = 0]
    ELSE IF f.f_jump = 0
    THEN IF f.i \in FnLetters
         THEN [f EXCEPT !.legal = f.legal \o <<f.i>>, !.legaldt = 1]
         ELSE IF f.legaldt = 1
              THEN IF f.legal \notin NamesLegal THEN Fail(f)
                   ELSE [f EXCEPT !.legaldt = 0, !.legal = <<>>]
              ELSE f
    ELSE f

(* lines 659-671: the reversed name of the prefix call *)
RevName(i) == CASE i = "!" -> <<"(", "t", "c", "a", "f">>
                [] i = "^" -> <<"(", "i", "f">>
                [] i = "C" -> <<"(", "c", "f">>
                [] OTHER -> <<"(", "p", "f">>

SkipLetters == FnLetters \cup {"f", "p"}

OperandStop == {"+", "-", "*", "/", "(", ","}

Postfix == {"!", "^", "C", "P"}

(* lines 675-704: one character sti of the backward scan over the reversed text *)
BackStep(f, sti) ==
    IF f.stdt = 0
    THEN CASE sti = f.i /\ f.stl0 = 0 ->
                [f EXCEPT !.stl0 = 1,
                          !.stout = f.stout \o <<IF sti = "!" THEN ")" ELSE ",">>]
           [] f.stl0 = 1 /\ sti = ")" ->
                [f EXCEPT !.stl0 = 2, !.stl1 = 1, !.stout = f.stout \o <<sti>>]
           [] f.stl0 = 1 ->
                [f EXCEPT !.stl0 = 3, !.stout = f.stout \o <<sti>>]
           [] f.stl0 = 2 ->
                LET d == IF sti = ")" THEN f.stl1 + 1
                         ELSE IF sti = "(" THEN f.stl1 - 1 ELSE f.stl1
                IN  [f EXCEPT !.stl1 = d,
                              !.stdt = IF d = 0 THEN 1 ELSE f.stdt,
                              !.stfdt = IF d = 0 THEN 1 ELSE f.stfdt,
                              !.stout = f.stout \o <<sti>>]
           [] f.stl0 = 3 /\ sti \in OperandStop ->
                [f EXCEPT !.stdt = 1, !.stout = f.stout \o f.sn \o <<sti>>]
           [] OTHER -> [f EXCEPT !.stout = f.stout \o <<sti>>]
    ELSE IF f.stdt = 1 /\ f.stfdt = 1 /\ sti \notin SkipLetters
    THEN [f EXCEPT !.stfdt = 0, !.stout = f.stout \o f.sn \o <<sti>>]
    ELSE [f EXCEPT !.stout = f.stout \o <<sti>>]

(* lines 708-709: the character is remembered *)
Remember(f) == [f EXCEPT !.li = f.i, !.ci = 0]

(* lines 705-709: after the backward scan *)
BackEnd(f) ==
    LET stout == IF f.stdt = 0 \/ f.stfdt = 1 THEN f.stout \o f.sn ELSE f.stout
    IN  Remember([f EXCEPT !.stout = stout, !.out = Reverse(stout), !.sk = 0])

(* lines 657-673: append; at a postfix operator reverse the text built so far *)
(* and start the backward scan                                             *)
Emit(f) ==
    LET o == f.out \o f.ri
    IN  IF f.i \in Postfix
        THEN [f EXCEPT !.out = Reverse(o), !.sn = RevName(f.i),
                       !.fact1 = IF f.i = "!" THEN 1 ELSE f.fact1,
                       !.fi1 = IF f.i = "^" THEN 1 ELSE f.fi1,
                       !.fc1 = IF f.i = "C" THEN 1 ELSE f.fc1,
                       !.fp1 = IF f.i = "P" THEN 1 ELSE f.fp1,
                       !.stl0 = 0, !.stl1 = 0, !.stdt = 0, !.stfdt = 0, !.stout = <<>>,
                       !.sk = 1]
        ELSE Remember([f EXCEPT !.out = o])

(* lines 515-673, 708-709: one iteration of the for-loop on character c,  *)
(* up to the backward scan when c is a postfix operator; accepted is the   *)
(* list of lines 516-517                                                   *)
Iteration(f, c, ansText, accepted) ==
    IF c \notin accepted THEN Fail(f)
    ELSE IF f.jump # 0 /\ f.jump # 8 THEN JumpSkip(f, c)
    ELSE IF DoubleOp(f, c) THEN Fail(f)
    ELSE LET a == CloseAtImplicit(CloseAtOperator(AfterOpen(AfterTrig(
                      ImplicitMul(Constants(f, c, ansText))))))
             b == LegalCheck(Recognize(a))
         IN  IF b.brk THEN b ELSE Emit(b)

(* the iteration with '#' added to the list of lines 516-517 *)
LoopBodyWide(f, c, ansText) == Iteration(f, c, ansText, Alphabet \cup {"#"})

(* lines 515-673, 708-709 with the list of lines 516-517 *)
LoopBody(f, c, ansText) == Iteration(f, c, ansText, Alphabet)

(* the iteration has entered its backward scan *)
Rewriting(f) == f.sk # 0

(* lines 716-726: close the pending calls, then balance the parentheses *)
Balance(f) ==
    LET o1 == IF f.strdt = 1 THEN f.out \o Rep(")", f.liststr) ELSE f.out
    IN  IF f.l0 > 0 THEN o1 \o Rep(")", f.l0)
        ELSE IF f.l0 < 0 THEN Rep("(", 0 - f.l0) \o o1
        ELSE o1

(* lines 727-730: the display text *)
Display(o) ==
    Replace(Replace(Replace(o, PiStr, <<"p", "i">>), EStr, <<"e">>),
            <<"f", "i">>, <<"p", "o", "w">>)

-----------------------------------------------------------------------------
(* eval(out), line 732, first half: the text is parsed as a Python         *)
(* expression.  A syntax tree node is [k, s, a]: kind, text (a number's    *)
(* digits, a name, an operator) and children.  Parentheses around one      *)
(* expression leave no node.                                               *)

Node(k, t, a) == [k |-> k, s |-> t, a |-> a]

NoParse == [ok |-> FALSE, n |-> Node("bad", <<>>, <<>>), p |-> 0]

Parsed(n, p) == [ok |-> TRUE, n |-> n, p |-> p]

NoArgs == [ok |-> FALSE, a |-> <<>>, p |-> 0, tr |-> FALSE]

At(q, p) == IF p >= 1 /\ p <= Len(q) THEN q[p] ELSE ""

Letters == FnLetters \cup {"f", "p", "e", "w"}

(* the first position at or after p holding no member of cls *)
RunEnd(q, p, cls) == CHOOSE z \in p..(Len(q) + 1) :
                         /\ At(q, z) \notin cls
                         /\ \A j \in p..(z - 1) : At(q, j) \in cls

(* a number literal at p: its integer part ends before a, its fraction   *)
(* before b, its exponent before c; no digit at all is no number, and an  *)
(* integer with a leading zero is one only when all its digits are zeros  *)
NumShape(q, p, a, b, c) ==
    IF \/ (a - p) + (IF b > a THEN b - a - 1 ELSE 0) = 0
       \/ /\ b = a /\ c = b /\ a - p > 1 /\ q[p] = "0"
          /\ \E j \in p..(a - 1) : q[j] # "0"
    THEN 0 ELSE c

NumExp(q, p, a, b, sg) ==
    NumShape(q, p, a, b,
             IF At(q, b) = "e" /\ At(q, sg) \in Digits THEN RunEnd(q, sg, Digits) ELSE b)

NumFrac(q, p, a, b) ==
    NumExp(q, p, a, b, IF At(q, b + 1) \in {"+", "-"} THEN b + 2 ELSE b + 1)

NumInt(q, p, a) ==
    NumFrac(q, p, a, IF At(q, a) = "." THEN RunEnd(q, a + 1, Digits) ELSE a)

(* the end of the number literal starting at p, or 0 when there is none *)
NumEnd(q, p) == NumInt(q, p, RunEnd(q, p, Digits))

(* no positional or starred argument may follow a **argument *)
ArgsOrdered(a) == \A j \in 1..Len(a) : \A h \in 1..Len(a) :
                      (j < h /\ a[j].k = "dstar") => a[h].k = "dstar"

(* a parenthesised form: one expression, or a tuple display *)
Group(r) ==
    IF \E j \in 1..Len(r.a) : r.a[j].k = "dstar" THEN NoParse
    ELSE IF Len(r.a) = 1 /\ ~r.tr
    THEN (IF r.a[1].k = "star" THEN NoParse ELSE Parsed(r.a[1], r.p))
    ELSE Parsed(Node("tuple", <<>>, r.a), r.p)

(* the unary signs at p..z-1 applied to n, the innermost last *)
RECURSIVE Signs(_, _, _, _)
Signs(q, p, z, n) == IF z = p THEN n
                     ELSE Signs(q, p, z - 1, Node("un", <<q[z - 1]>>, <<n>>))

SignsOn(q, p, z, w) == IF w.ok THEN Parsed(Signs(q, p, z, w.n), w.p) ELSE NoParse

NumAt(q, z, y) == IF y = 0 THEN NoParse
                  ELSE Parsed(Node("num", SubSeq(q, z, y - 1), <<>>), y)

NameAt(q, z, y) == Parsed(Node("name", SubSeq(q, z, y - 1), <<>>), y)

(* the atom at z; g is what follows an opening parenthesis there *)
AtomOf(q, z, g) ==
    CASE At(q, z) \in Digits \cup {"."} -> NumAt(q, z, NumEnd(q, z))
      [] At(q, z) \in Letters -> NameAt(q, z, RunEnd(q, z, Letters \cup Digits))
      [] At(q, z) = "(" -> IF g.ok THEN Group(g) ELSE NoParse
      [] OTHER -> NoParse

(* the call of f with the arguments r *)
Called(f, r) ==
    IF ~r.ok \/ ~ArgsOrdered(r.a) THEN NoParse
    ELSE Parsed(IF f.k = "name" THEN Node("call", f.s, r.a)
                ELSE Node("apply", <<>>, <<f>> \o r.a), r.p)

AttrAt(q, a, z) == Parsed(Node("attr", SubSeq(q, a.p + 1, z - 1), <<a.n>>), z)

Powered(a, f) == IF f.ok THEN Parsed(Node("bin", <<"*", "*">>, <<a.n, f.n>>), f.p)
                 ELSE NoParse

(* the state of an expression being read from p on: the sum so far with   *)
(* its pending operator, the product so far with its pending operator     *)
Start(p) == [ok |-> TRUE, done |-> FALSE, p |-> p,
             sum |-> Node("bad", <<>>, <<>>), sop |-> <<>>,
             prod |-> Node("bad", <<>>, <<>>), pop |-> <<>>]

OpAt(q, p) == IF At(q, p) = "/" /\ At(q, p + 1) = "/" THEN <<"/", "/">> ELSE <<At(q, p)>>

Total(st, prod) == IF st.sop = <<>> THEN prod ELSE Node("bin", st.sop, <<st.sum, prod>>)

(* the state after an operand ending before p that made the product prod *)
Continue(q, st, p, prod) ==
    CASE At(q, p) \in {"*", "/"} ->
           [st EXCEPT !.prod = prod, !.pop = OpAt(q, p), !.p = p + Len(OpAt(q, p))]
      [] At(q, p) \in {"+", "-"} ->
           [Start(p + 1) EXCEPT !.sum = Total(st, prod), !.sop = <<At(q, p)>>]
      [] OTHER -> [st EXCEPT !.done = TRUE, !.sum = Total(st, prod), !.p = p]

(* the state after the operand o *)
Folded(q, st, o) ==
    IF ~o.ok THEN [st EXCEPT !.ok = FALSE]
    ELSE Continue(q, st, o.p,
                  IF st.pop = <<>> THEN o.n ELSE Node("bin", st.pop, <<st.prod, o.n>>))

StarAt(q, p) == IF At(q, p) = "*" THEN (IF At(q, p + 1) = "*" THEN 2 ELSE 1) ELSE 0

Elem(st, n) == CASE st = 0 -> n
                 [] st = 1 -> Node("star", <<>>, <<n>>)
                 [] OTHER -> Node("dstar", <<>>, <<n>>)

(* The descent over the text between two parentheses, one rule per value *)
(* of rule; q is the text, p a position, n what has been read so far, and *)
(* g holds, at the position of each opening parenthesis already closed,   *)
(* what stands between it and its closing one.                            *)
(*   args      elem (',' elem)* [',']  ')'    elem: ['*' | '**'] expr      *)
(*   more      the rest of args after an elem                              *)
(*   expr      operand (('+' | '-' | '*' | '/' | '//') operand)*, '*' '/'  *)
(*             and '//' binding tighter than '+' '-', all to the left      *)
(*   operand   ('+' | '-')* atom tail                                      *)
(*   tail      ( '(' args | '.' name )* ['**' operand]                     *)
RECURSIVE Descend(_, _, _, _, _)
Descend(rule, q, p, n, g) ==
    CASE rule = "expr" ->
           CASE ~n.ok -> NoParse
             [] n.done -> Parsed(n.sum, n.p)
             [] OTHER -> Descend("expr", q, 0,
                                 Folded(q, n, Descend("operand", q, n.p, <<>>, g)), g)
      [] rule = "operand" ->
           SignsOn(q, p, RunEnd(q, p, {"+", "-"}),
                   Descend("tail", q, 0,
                           AtomOf(q, RunEnd(q, p, {"+", "-"}),
                                  g[RunEnd(q, p, {"+", "-"})]), g))
      [] rule = "tail" ->
           CASE ~n.ok -> NoParse
             [] At(q, n.p) = "(" -> Descend("tail", q, 0, Called(n.n, g[n.p]), g)
             [] At(q, n.p) = "." /\ At(q, n.p + 1) \in Letters ->
                  Descend("tail", q, 0,
                          AttrAt(q, n, RunEnd(q, n.p + 1, Letters \cup Digits)), g)
             [] At(q, n.p) = "*" /\ At(q, n.p + 1) = "*" ->
                  Powered(n, Descend("operand", q, n.p + 2, <<>>, g))
             [] OTHER -> n
      [] rule = "args" ->
           IF At(q, p) = ")" THEN [ok |-> TRUE, a |-> n, p |-> p + 1, tr |-> n # <<>>]
           ELSE Descend("more", q, StarAt(q, p),
                        [acc |-> n, r |-> Descend("expr", q, 0, Start(p + StarAt(q, p)), g)],
                        g)
      [] OTHER ->
           CASE ~n.r.ok -> NoArgs
             [] At(q, n.r.p) = "," ->
                  Descend("args", q, n.r.p + 1, Append(n.acc, Elem(p, n.r.n)), g)
             [] At(q, n.r.p) = ")" ->
                  [ok |-> TRUE, a |-> Append(n.acc, Elem(p, n.r.n)), p |-> n.r.p + 1,
                   tr |-> FALSE]
             [] OTHER -> NoArgs

(* the k-th closing parenthesis of q *)
Closer(q, k) == CHOOSE c \in 1..Len(q) :
                    q[c] = ")" /\ Count(SubSeq(q, 1, c), ")") = k

(* the opening parenthesis the one at c closes, 0 when there is none *)
Opener(q, c) ==
    LET at == {o \in 1..(c - 1) :
                  /\ q[o] = "("
                  /\ Count(SubSeq(q, o, c), "(") = Count(SubSeq(q, o, c), ")")}
    IN  IF at = {} THEN 0 ELSE CHOOSE o \in at : \A j \in at : j <= o

(* g with the parentheses from o on read *)
Closed(q, g, o) ==
    IF o = 0 THEN g ELSE [g EXCEPT ![o] = Descend("args", q, o + 1, <<>>, g)]

(* the parentheses of q read from the k-th closing one on, the inner *)
(* ones before those around them                                     *)
RECURSIVE Reduce(_, _, _)
Reduce(q, k, g) ==
    IF k > Count(q, ")") THEN g
    ELSE Reduce(q, k + 1, Closed(q, g, Opener(q, Closer(q, k))))

(* the whole text: one expression, or a tuple without parentheses or stars *)
Whole(q, r) == IF /\ r.ok /\ r.p = Len(q) + 2 /\ r.a # <<>>
                  /\ \A j \in 1..Len(r.a) : r.a[j].k # "star"
               THEN Group(r) ELSE NoParse

Parse(q) == Whole(q, Descend("args", q \o <<")">>, 1, <<>>,
                             Reduce(q, 1, [j \in 1..Len(q) |-> NoArgs])))

-----------------------------------------------------------------------------
(* The function library as eval sees it: exact where the code's result is  *)
(* a decimal the model follows, its domain checks as the code makes them,  *)
(* and "real" for a series or search result.                               *)

RECURSIVE Product(_, _)
(* lines 14-16: x * (x-1) * ... * (x-n+1) *)
Product(hi, n) == IF n = 0 THEN 1 ELSE hi * Product(hi - 1, n - 1)

(* lines 6, 355: round(x, places); a decimal tie falls to either neighbour, as the *)
(* binary value of the float stands on one side of it or the other        *)
Rounded(v, places) ==
    IF v.e >= 0 - places THEN {v}
    ELSE IF 0 - places - v.e > 9 THEN {Zero}
    ELSE LET p == Pow10(0 - places - v.e)
             q == Abs(v.m) \div p
             r == Abs(v.m) % p
             up == Norm(Sgn(v.m) * (q + 1), 0 - places)
             dn == Norm(Sgn(v.m) * q, 0 - places)
         IN  IF r > p - r THEN {up} ELSE IF r < p - r THEN {dn} ELSE {up, dn}

(* lines 7-16 for the rounded x: NaN unless x is integral and not below 0, *)
(* else the product; past 12! the product is not followed digit by digit   *)
Factorial(r) ==
    IF r.e < 0 \/ r.m < 0 THEN NaN
    ELSE IF Mag(r) > 4 \/ IntVal(r) > 170 THEN Unknown
    ELSE IF IntVal(r) > 12 THEN RealOf(1, FALSE)
    ELSE Norm(Product(IntVal(r), IntVal(r)), 0)

(* lines 7-8 without the rounding of line 6 having made x integral *)
FactorialUnrounded(v) ==
    IF v.k = "nan" THEN NaN
    ELSE IF v.k = "real" THEN Unknown
    ELSE Factorial(v)

(* lines 5-17 *)
fact(v) ==
    IF v.k = "nan" THEN NaN
    ELSE IF v.k = "real" THEN Unknown
    ELSE IF Cardinality(Rounded(v, 13)) # 1 THEN Unknown
    ELSE Factorial(CHOOSE r \in Rounded(v, 13) : TRUE)

(* lines 201-226: fc when comb, fp otherwise *)
Choose(v, w, comb) ==
    IF v.k = "nan" \/ w.k = "nan" THEN NaN
    ELSE IF v.k = "real" \/ w.k = "real" THEN Unknown
    ELSE IF v.e < 0 - 13 \/ w.e < 0 - 13 THEN Unknown
    ELSE IF v.e < 0 \/ w.e < 0 THEN NaN
    ELSE IF v.m < 0 \/ w.m < 0 \/ Cmp(v, w) < 0 THEN NaN
    ELSE IF Mag(v) > 4 \/ IntVal(v) > 170 THEN Unknown
    ELSE IF IntVal(v) > 12 THEN RealOf(1, FALSE)
    ELSE IF comb THEN Norm(Product(IntVal(v), IntVal(w)) \div Product(IntVal(w), IntVal(w)), 0)
    ELSE Norm(Product(IntVal(v), IntVal(w)), 0)

(* the integral exponents for which the sign T of line 310 is followed *)
MaxTurn == 36

(* lines 309-310: T = sgn(cos(n * pi)) for an integral n.  cos (lines 65-68) *)
(* is negative outside 0 <= x < pi/2, and induce leaves 6 * pi, 12 * pi, ... *)
(* just below zero, so T is -1 at the multiples of 6 as at the odd n         *)
Turn(n) == IF n # 0 /\ n % 6 = 0 THEN 0 - 1 ELSE IF n % 2 = 0 THEN 1 ELSE 0 - 1

(* lines 291-317 *)
fi(v, n) ==
    IF v.k = "nan" \/ n.k = "nan" THEN NaN
    ELSE IF ~SignKnown(v) THEN Unknown
    ELSE IF SignOf(v) = 0
    THEN (IF ~SignKnown(n) THEN Unknown ELSE IF SignOf(n) <= 0 THEN NaN ELSE Zero)
    ELSE IF SignOf(v) > 0 THEN PowVal(v, n)
    ELSE IF IsInt(n) /\ Mag(n) <= 2 /\ Abs(IntVal(n)) <= MaxTurn
    THEN Mul(Norm(Turn(IntVal(n)), 0), PowVal(Neg(v), n))
    ELSE Unknown

(* pi / 2 in units of 10^-7, rounded down: the pi of lines 748-749 *)
HalfPi7 == 15707963

(* the n with n * pi / 2 <= X / 100 < (n + 1) * pi / 2, or -1 when X / 100 *)
(* is too near a multiple of pi / 2 to tell                                *)
Quadrant(X) ==
    IF \E n \in 0..64 : n * (HalfPi7 + 1) <= X * 100000 /\ X * 100000 < (n + 1) * HalfPi7
    THEN CHOOSE n \in 0..64 : n * (HalfPi7 + 1) <= X * 100000 /\ X * 100000 < (n + 1) * HalfPi7
    ELSE 0 - 1

(* the quadrant of abs(x) for a decimal of two places below 100, else -1 *)
QuadrantOf(v) ==
    IF IsNum(v) /\ v.e >= 0 - 2 /\ Mag(v) <= 2 THEN Quadrant(Abs(v.m) * Pow10(v.e + 2))
    ELSE 0 - 1

(* lines 20-29, 45-48: induce brings abs(x) into (-pi, pi], where the     *)
(* quadrants 2 and 3 lie below 0; inside is the test 0 < x < pi, and the  *)
(* result takes the sign of the argument (line 49)                        *)
SinSign(v) ==
    IF QuadrantOf(v) < 0 THEN 0
    ELSE IF QuadrantOf(v) % 4 \in {0, 1} THEN Sgn(v.m) ELSE 0 - Sgn(v.m)

(* lines 55-56, 65-68: the test 0 <= x < pi / 2 holds in quadrant 0 alone *)
CosSign(v) ==
    IF QuadrantOf(v) < 0 THEN 0
    ELSE IF QuadrantOf(v) % 4 = 0 THEN 1 ELSE 0 - 1

(* lines 20-79: sin, cos, tan *)
Trig(name, v) ==
    IF v.k = "nan" THEN NaN
    ELSE IF ~Bounded(v) THEN (IF IsNum(v) THEN NaN ELSE Unknown)
    ELSE IF name = <<"c","o","s">> THEN RealOf(CosSign(v), TRUE)
    ELSE IF IsNum(v) /\ v.m = 0 THEN Zero
    ELSE IF name = <<"s","i","n">> THEN RealOf(SinSign(v), TRUE)
    ELSE IF IsNum(v) THEN RealOf(0, FALSE)
    ELSE Unknown

(* lines 82-160: arcsin, arccos, arctan *)
ArcTrig(name, v) ==
    IF v.k = "nan" THEN NaN
    ELSE IF ~IsNum(v) THEN Unknown
    ELSE IF name = <<"a","r","c","t","a","n">>
    THEN (IF Mag(v) <= 14 THEN RealOf(0, TRUE) ELSE Unknown)
    ELSE IF Cmp(AbsVal(v), One) > 0 THEN NaN
    ELSE RealOf(0, TRUE)

(* lines 163-198: ln and lg *)
Ln(v) ==
    IF v.k = "nan" THEN NaN
    ELSE IF SignKnown(v) /\ SignOf(v) <= 0 THEN NaN
    ELSE IF SignKnown(v) /\ ((IsNum(v) /\ Mag(v) <= 250) \/ (~IsNum(v) /\ Bounded(v)))
    THEN RealOf(0, TRUE)
    ELSE Unknown

(* lines 194-198 *)
Log(v, w) ==
    IF v.k = "nan" \/ w.k = "nan" THEN NaN
    ELSE IF (SignKnown(v) /\ SignOf(v) <= 0) \/ (SignKnown(w) /\ SignOf(w) <= 0) THEN NaN
    ELSE IF IsNum(v) /\ v = One THEN NaN
    ELSE IF IsNum(v) /\ IsNum(w) /\ Mag(v) <= 250 /\ Mag(w) <= 250 THEN RealOf(0, FALSE)
    ELSE Unknown

(* lines 229-274: the hyperbolic functions and their inverses *)
Hyper(name, v) ==
    IF v.k = "nan" THEN NaN
    ELSE IF ~IsNum(v) THEN Unknown
    ELSE IF name \in {<<"s","i","n","h">>, <<"c","o","s","h">>, <<"t","a","n","h">>}
    THEN (IF Mag(v) <= 2 THEN RealOf(IF name = <<"c","o","s","h">> THEN 1 ELSE 0, FALSE)
          ELSE Unknown)
    ELSE IF name = <<"a","r","s","i","n","h">>
    THEN (IF Mag(v) <= 7 THEN RealOf(0, TRUE) ELSE Unknown)
    ELSE IF name = <<"a","r","c","o","s","h">>
    THEN (IF Cmp(v, One) < 0 THEN NaN ELSE IF Mag(v) <= 100 THEN RealOf(0, TRUE) ELSE Unknown)
    ELSE IF Cmp(AbsVal(v), One) >= 0 THEN NaN
    ELSE RealOf(0, FALSE)

(* lines 277-288 *)
sgn(v) ==
    IF v.k = "nan" THEN NaN
    ELSE IF IsNum(v) /\ v.m = 0 THEN Zero
    ELSE IF SignKnown(v) THEN Norm(SignOf(v), 0)
    ELSE Unknown

Arity(name) == IF name \in {NameLog, <<"f","i">>, <<"f","c">>, <<"f","p">>} THEN 2 ELSE 1

Callable == NamesLegal \cup { <<"f","i">>, <<"f","a","c","t">>, <<"f","c">>, <<"f","p">> }

(* a call of a bound name with evaluated arguments *)
Apply(name, args) ==
    CASE name \notin Callable -> Err
      [] \E j \in 1..Len(args) : args[j].k = "err" -> Err
      [] Len(args) # Arity(name) -> Err
      [] \E j \in 1..Len(args) : args[j].k \in {"fn", "tup"} ->
           IF \E j \in 1..Len(args) : args[j].k = "nan" THEN Unknown ELSE Err
      [] \E j \in 1..Len(args) : args[j].k = "unk" -> Unknown
      [] name = <<"f","a","c","t">> -> fact(args[1])
      [] name = <<"f","i">> -> fi(args[1], args[2])
      [] name = <<"f","c">> -> Choose(args[1], args[2], TRUE)
      [] name = <<"f","p">> -> Choose(args[1], args[2], FALSE)
      [] name = NameLog -> Log(args[1], args[2])
      [] name \in {<<"l","n">>, <<"l","g">>} -> Ln(args[1])
      [] name = <<"a","b","s">> -> IF args[1].k = "nan" THEN NaN ELSE AbsVal(args[1])
      [] name = <<"s","g","n">> -> sgn(args[1])
      [] name \in NamesTrig -> Trig(name, args[1])
      [] name \in {<<"a","r","c","s","i","n">>, <<"a","r","c","c","o","s">>,
                   <<"a","r","c","t","a","n">>} -> ArcTrig(name, args[1])
      [] OTHER -> Hyper(name, args[1])

-----------------------------------------------------------------------------
(* eval(out), line 732, second half: the value of the syntax tree *)

RECURSIVE DigitsToInt(_, _)
DigitsToInt(d, acc) == IF d = <<>> THEN acc
                       ELSE DigitsToInt(Tail(d), 10 * acc + DigitVal(d[1]))

RECURSIVE StripZeros(_)
StripZeros(d) == IF d # <<>> /\ d[1] = "0" THEN StripZeros(Tail(d)) ELSE d

(* the value of a number literal *)
NumVal(t) ==
    LET ep == IF \E j \in 1..Len(t) : t[j] = "e"
              THEN CHOOSE j \in 1..Len(t) : t[j] = "e" ELSE Len(t) + 1
        mant == SubSeq(t, 1, ep - 1)
        dot == IF \E j \in 1..Len(mant) : mant[j] = "."
               THEN CHOOSE j \in 1..Len(mant) : mant[j] = "." ELSE Len(mant) + 1
        frac == SubSeq(mant, dot + 1, Len(mant))
        sig == StripZeros(SubSeq(mant, 1, dot - 1) \o frac)
        exd == SubSeq(t, ep + 1, Len(t))
        exn == IF exd = <<>> THEN 0
               ELSE IF exd[1] = "-" THEN 0 - DigitsToInt(StripZeros(Tail(exd)), 0)
               ELSE IF exd[1] = "+" THEN DigitsToInt(StripZeros(Tail(exd)), 0)
               ELSE DigitsToInt(StripZeros(exd), 0)
    IN  IF Len(StripZeros(exd)) > 4 THEN Unknown
        ELSE IF sig = <<>> THEN Zero
        ELSE IF Len(sig) - Len(frac) + exn > MaxMag THEN Unknown
        ELSE IF Len(sig) <= 9 THEN Norm(DigitsToInt(sig, 0), exn - Len(frac))
        ELSE RealOf(1, Len(sig) - Len(frac) + exn <= 10)

(* The value of a node (part = "node"), or the values of the call         *)
(* arguments n from the j-th on (part = "args"), a starred tuple display   *)
(* spliced in.                                                             *)
RECURSIVE Eval(_, _, _)
Eval(part, n, j) ==
    CASE part = "args" /\ \A h \in j..Len(n) : n[h].k \notin {"star", "dstar"} ->
           [h \in 1..(Len(n) + 1 - j) |-> Eval("node", n[h + j - 1], 0)]
      [] part = "args" ->
           LET h == n[j]
           IN  CASE h.k = "star" /\ h.a[1].k = "tuple" ->
                      Eval("args", h.a[1].a, 1) \o Eval("args", n, j + 1)
                 [] h.k = "star" ->
                      LET v == Eval("node", h.a[1], 0)
                      IN  <<IF v.k = "tup" THEN Unknown ELSE Err>> \o Eval("args", n, j + 1)
                 [] h.k = "dstar" -> <<Err>> \o Eval("args", n, j + 1)
                 [] OTHER -> <<Eval("node", h, 0)>> \o Eval("args", n, j + 1)
      [] n.k = "num" -> NumVal(n.s)
      [] n.k = "name" -> IF n.s \in Callable THEN Fn ELSE Err
      [] n.k = "call" -> Apply(n.s, Eval("args", n.a, 1))
      [] n.k = "tuple" ->
           IF \E h \in 1..Len(n.a) : Eval("node", n.a[h], 0).k = "err" THEN Err ELSE Tup
      [] n.k = "star" -> IF Eval("node", n.a[1], 0).k = "err" THEN Err ELSE Tup
      [] n.k = "un" ->
           LET v == Eval("node", n.a[1], 0)
           IN  IF v.k \in {"fn", "tup"} THEN Err
               ELSE IF n.s = <<"-">> THEN Neg(v) ELSE v
      [] n.k = "bin" ->
           LET l == Eval("node", n.a[1], 0)
               r == Eval("node", n.a[2], 0)
           IN  CASE n.s = <<"+">> -> Add(l, r)
                 [] n.s = <<"-">> -> Sub(l, r)
                 [] n.s = <<"*">> -> Mul(l, r)
                 [] n.s = <<"/">> -> Div(l, r)
                 [] n.s = <<"*", "*">> -> PowOp(l, r)
                 [] OTHER -> Mixed(l, Mixed(r, Unknown))
      [] OTHER -> Err

EvalNode(n) == Eval("node", n, 0)

(* lines 732-733: eval(out), then float(str(out)) *)
EvalText(o) ==
    LET r == Parse(o)
        v == IF r.ok THEN EvalNode(r.n) ELSE Err
    IN  IF v.k \in {"fn", "tup"} THEN Err ELSE v

-----------------------------------------------------------------------------
(* The library functions the modes call directly: times, transform, f2 and *)
(* f3.  A call gives the list it returns, or raises.                       *)

(* a comparison with a number the model follows exactly, or with NaN, for *)
(* which every comparison is false                                        *)
Decided(v) == v.k \in {"num", "nan"}

Gt0(v) == IsNum(v) /\ v.m > 0

Eq0(v) == IsNum(v) /\ v.m = 0

Lt0(v) == IsNum(v) /\ v.m < 0

HasNaN(q) == \E j \in 1..Len(q) : q[j].k = "nan"

HasErr(q) == \E j \in 1..Len(q) : q[j].k = "err"

(* a return of out, unless one of the values computed on the way raised *)
Returned(out, work) == IF HasErr(work) THEN [out |-> <<>>, raised |-> TRUE]
                       ELSE [out |-> out, raised |-> FALSE]

(* the integers whose squares the model follows *)
MaxRoot == 100

(* pow(v, 0.5) for v >= 0 or NaN: exact at a perfect square *)
Root(v) ==
    IF v.k = "nan" THEN NaN
    ELSE IF v.k = "err" THEN Err
    ELSE IF IsInt(v) /\ v.m >= 0 /\ Mag(v) <= 4
            /\ \E r \in 0..MaxRoot : r * r = IntVal(v)
    THEN Norm(CHOOSE r \in 0..MaxRoot : r * r = IntVal(v), 0)
    ELSE IF SignOf(v) = 1 /\ Bounded(v) THEN RealOf(1, TRUE)
    ELSE PowVal(v, Norm(5, 0 - 1))

(* arccos and cos behind an argument that may have raised *)
ArcCos(v) == IF v.k = "err" THEN Err ELSE ArcTrig(<<"a","r","c","c","o","s">>, v)

Cosine(v) == IF v.k = "err" THEN Err ELSE Trig(<<"c","o","s">>, v)

Sine(v) == IF v.k = "err" THEN Err ELSE Trig(<<"s","i","n">>, v)

(* lines 326-330: n - 1 complex multiplications by a + bi *)
RECURSIVE Iterate(_, _, _, _, _)
Iterate(a, b, c, d, k) ==
    IF k <= 0 THEN <<c, d>>
    ELSE Iterate(a, b, Sub(Mul(a, c), Mul(b, d)), Add(Mul(b, c), Mul(a, d)), k - 1)

(* lines 320-332; range(1, n) raises for an n that is not an int *)
times(a, b, n) ==
    IF HasNaN(<<a, b, n>>) THEN Returned(<<NaN, NaN>>, <<>>)
    ELSE IF ~IsInt(n) THEN Returned(<<>>, <<Err>>)
    ELSE IF Mag(n) > 1 THEN Returned(<<Unknown, Unknown>>, <<>>)
    ELSE Returned(Iterate(a, b, a, b, IntVal(n) - 1), Iterate(a, b, a, b, IntVal(n) - 1))

(* lines 380-387: the modulus r and the angle of a + bi, b # 0 *)
Polar(a, b, r) ==
    IF Eq0(r) THEN <<Zero, Zero>>
    ELSE IF Lt0(b) THEN <<r, Neg(ArcCos(Div(a, r)))>>
    ELSE <<r, ArcCos(Div(a, r))>>

(* lines 372-392; form is the parameter x: 0 asks for the polar form *)
transform(a, b, form) ==
    IF form.k = "nan" THEN Returned(<<NaN>>, <<>>)
    ELSE IF Eq0(form)
    THEN IF Eq0(b) THEN Returned(<<a, Zero>>, <<>>)
         ELSE Returned(Polar(a, b, Root(Add(Mul(a, a), Mul(b, b)))),
                       Polar(a, b, Root(Add(Mul(a, a), Mul(b, b)))))
    ELSE Returned(<<Mul(a, Cosine(b)), Mul(a, Sine(b))>>,
                  <<Mul(a, Cosine(b)), Mul(a, Sine(b))>>)

(* line 442: D = -b / (2 * a) *)
Vertex(a, b) == Div(Neg(b), Mul(Norm(2, 0), a))

(* lines 443, 493: b^2 - 4ac *)
Discriminant(a, b, c) == Sub(Mul(b, b), Mul(Mul(Norm(4, 0), a), c))

(* lines 444-452: the list G for the discriminant dt *)
QuadraticRoots(a, b, dt) ==
    IF ~Decided(dt) THEN <<Unknown>>
    ELSE IF Gt0(dt)
    THEN << Div(Add(Neg(b), Root(dt)), Mul(Norm(2, 0), a)),
            Div(Sub(Neg(b), Root(dt)), Mul(Norm(2, 0), a)) >>
    ELSE IF Eq0(dt) THEN << Vertex(a, b) >>
    ELSE << Vertex(a, b), Div(Root(Neg(dt)), Mul(Norm(2, 0), a)),
            Neg(Div(Root(Neg(dt)), Mul(Norm(2, 0), a))) >>

(* lines 437-456: G when y = 1, else D *)
f2(a, b, c, y, z) ==
    IF HasNaN(<<a, b, c>>)
    THEN Returned(IF y = 1 THEN <<NaN, NaN>> ELSE <<NaN>>, <<>>)
    ELSE Returned(IF y = 1 THEN QuadraticRoots(a, b, Discriminant(a, b, c))
                  ELSE <<Vertex(a, b)>>,
                  <<Vertex(a, b)>> \o QuadraticRoots(a, b, Discriminant(a, b, c)))

(* line 465 *)
CubicA(a, b, c) == Sub(Mul(b, b), Mul(Mul(Norm(3, 0), a), c))

(* line 466 *)
CubicB(a, b, c, d) == Sub(Mul(b, c), Mul(Mul(Norm(9, 0), a), d))

(* line 467 *)
CubicC(b, c, d) == Sub(Mul(c, c), Mul(Mul(Norm(3, 0), b), d))

(* line 468 *)
CubicDT(A, B, C) == Sub(Mul(B, B), Mul(Mul(Norm(4, 0), A), C))

(* lines 472-473: the argument of the cube root, sg = 1 for Y1, -1 for Y2 *)
Radicand(a, b, A, B, DT, sg) ==
    Add(Mul(A, b), Mul(Mul(Norm(15, 0 - 1), a),
                       IF sg = 1 THEN Add(Neg(B), Root(DT)) ELSE Sub(Neg(B), Root(DT))))

(* lines 472-473: fi(v, 1 / 3).  For v < 0 the search of lines 300-311     *)
(* ends at k = 1, where sin(n * pi + 2 * n * k * pi) rounds to 0 and T is  *)
(* sgn(cos(pi)) = -1, whatever v is: the result is -pow(-v, 1 / 3)         *)
CubeRoot(v) ==
    IF v.k \in {"nan", "err", "unk"} THEN v
    ELSE IF IsNum(v) /\ v.m = 0 THEN Zero
    ELSE RealOf(SignOf(v), Bounded(v))

(* lines 474-477: one real root, then the real and imaginary parts of the pair *)
Conjugates(a, b, Y1, Y2) ==
    << Div(Sub(Sub(Neg(b), Y1), Y2), Mul(Norm(3, 0), a)),
       Div(Add(Neg(b), Mul(Norm(5, 0 - 1), Add(Y1, Y2))), Mul(Norm(3, 0), a)),
       Div(Mul(Root(Norm(3, 0)), Sub(Y1, Y2)), Mul(Norm(6, 0), a)),
       Neg(Div(Mul(Root(Norm(3, 0)), Sub(Y1, Y2)), Mul(Norm(6, 0), a))) >>

(* lines 479-482 *)
Repeated(a, b, K) == << Add(Div(Neg(b), a), K), Div(Neg(K), Norm(2, 0)) >>

(* line 484: 2 * A * b - 3 * a * B *)
Numerator(a, b, A, B) == Sub(Mul(Mul(Norm(2, 0), A), b), Mul(Mul(Norm(3, 0), a), B))

(* line 484, for A >= 0 *)
CubicT(a, b, A, B) == Div(Numerator(a, b, A, B), Mul(Norm(2, 0), Root(PowNat(A, 3))))

(* lines 486-488: sg = 0 for x1, 1 for x2, -1 for x3 *)
ThreeReal(a, b, A, ct, sg) ==
    IF sg = 0
    THEN Div(Sub(Neg(b), Mul(Mul(Norm(2, 0), Root(A)), Cosine(Div(ct, Norm(3, 0))))),
             Mul(Norm(3, 0), a))
    ELSE Div(Add(Neg(b), Mul(Root(A),
                 Add(Cosine(Div(ct, Norm(3, 0))),
                     Mul(Norm(sg, 0), Mul(Root(Norm(3, 0)), Sine(Div(ct, Norm(3, 0)))))))),
             Mul(Norm(3, 0), a))

(* lines 484-489.  For A < 0 pow(A ** 3, 0.5) is a complex number, and so  *)
(* is T: arccos returns NaN when abs(T) > 1, and otherwise its test nan(T) *)
(* raises TypeError; abs(T) is NaN, never > 1, when the numerator is NaN   *)
Trigonometric(a, b, A, B) ==
    IF Lt0(A)
    THEN IF Numerator(a, b, A, B).k = "nan" THEN <<Err>>
         ELSE <<Unknown, Unknown, Unknown>>
    ELSE << ThreeReal(a, b, A, ArcCos(CubicT(a, b, A, B)), 0),
            ThreeReal(a, b, A, ArcCos(CubicT(a, b, A, B)), 1),
            ThreeReal(a, b, A, ArcCos(CubicT(a, b, A, B)), 0 - 1) >>

(* lines 469-489: the list G; single is the test of line 469 being made,  *)
(* ahead of the tests of DT                                               *)
CubicCases(a, b, A, B, DT, single) ==
    IF ~(Decided(A) /\ Decided(B) /\ Decided(DT)) THEN <<Unknown>>
    ELSE IF single /\ Eq0(A) /\ Eq0(B) THEN << Div(Neg(b), Mul(Norm(3, 0), a)) >>
    ELSE IF Gt0(DT)
    THEN Conjugates(a, b, CubeRoot(Radicand(a, b, A, B, DT, 1)),
                          CubeRoot(Radicand(a, b, A, B, DT, 0 - 1)))
    ELSE IF Eq0(DT) THEN Repeated(a, b, Div(B, A))
    ELSE Trigonometric(a, b, A, B)

(* the cases by DT alone *)
CubicRootsByDT(a, b, A, B, DT) == CubicCases(a, b, A, B, DT, FALSE)

(* lines 469-489 *)
CubicRoots(a, b, A, B, DT) == CubicCases(a, b, A, B, DT, TRUE)

(* lines 490-496: the list D, the roots of the derivative *)
Stationary(dg, dd) ==
    IF dg.raised THEN <<Err>>
    ELSE IF Gt0(dd) THEN <<dg.out[1], dg.out[2]>>
    ELSE <<>>

(* lines 459-500: G when y = 1, else D; d is not among the tested arguments *)
f3(a, b, c, d, y, z) ==
    IF HasNaN(<<a, b, c>>)
    THEN Returned(IF y = 1 THEN <<NaN, NaN, NaN>> ELSE <<NaN, NaN>>, <<>>)
    ELSE Returned(
           IF y = 1
           THEN CubicRoots(a, b, CubicA(a, b, c), CubicB(a, b, c, d),
                           CubicDT(CubicA(a, b, c), CubicB(a, b, c, d), CubicC(b, c, d)))
           ELSE Stationary(f2(Mul(Norm(3, 0), a), Mul(Norm(2, 0), b), c, 1, 0),
                           Discriminant(Mul(Norm(3, 0), a), Mul(Norm(2, 0), b), c)),
           CubicRoots(a, b, CubicA(a, b, c), CubicB(a, b, c, d),
                      CubicDT(CubicA(a, b, c), CubicB(a, b, c, d), CubicC(b, c, d)))
           \o Stationary(f2(Mul(Norm(3, 0), a), Mul(Norm(2, 0), b), c, 1, 0),
                         Discriminant(Mul(Norm(3, 0), a), Mul(Norm(2, 0), b), c)))
-----------------------------------------------------------------------------
(* better: the display text of a value *)

Ten == Norm(1, 1)

(* lines 343-346: while abs(x) >= 10, count a digit and divide by ten *)
RECURSIVE Shrink(_, _)
Shrink(v, i) == IF Cmp(AbsVal(v), Ten) >= 0 THEN Shrink(Norm(v.m, v.e - 1), i + 1)
                ELSE [x |-> v, i |-> i, dt |-> 0]

(* lines 351-354: while abs(x) < 1, count a digit and multiply by ten *)
RECURSIVE Grow(_, _)
Grow(v, i) == IF Cmp(AbsVal(v), One) < 0 THEN Grow(Norm(v.m, v.e + 1), i - 1)
              ELSE [x |-> v, i |-> i, dt |-> 1]

(* lines 342-354: the mantissa x, the exponent i and the flag dt *)
Scaled(v) ==
    IF Cmp(AbsVal(v), Norm(1, 10)) > 0 THEN Shrink(v, 0)
    ELSE IF Cmp(AbsVal(v), Norm(1, 0 - 5)) < 0
    THEN (IF Cmp(v, Norm(1, 0 - 10)) < 0 THEN [x |-> Zero, i |-> 0, dt |-> 0]
          ELSE Grow(v, 0))
    ELSE [x |-> v, i |-> 0, dt |-> 0]

(* lines 356-359, 368: int(x) when x is integral, and str() of it *)
Mantissa(r) == IF r.e >= 0 THEN StrInt(r) ELSE StrFloat(r)

(* lines 361-363: str(i), parenthesised when dt = 1 *)
Exponent(i, dt) ==
    LET t == SignText(i) \o DigitsOf(Abs(i))
    IN  IF dt = 1 THEN <<"(">> \o t \o <<")">> ELSE t

(* lines 360-368 *)
Rendered(r, i, dt) ==
    IF i = 0 THEN Mantissa(r)
    ELSE IF r = One THEN <<"1", "0", "^">> \o Exponent(i, dt)
    ELSE Mantissa(r) \o <<"*", "1", "0", "^">> \o Exponent(i, dt)

(* lines 335-369: the results better can give for v at precision places.  *)
(* For NaN, x becomes the text "DC" and abs(x) at line 343 raises.        *)
better(v, places) ==
    IF v.k = "nan" THEN {[x |-> DC, bbmdt |-> 1, raised |-> TRUE]}
    ELSE LET sc == Scaled(v)
         IN  {[x |-> Rendered(r, sc.i, sc.dt), bbmdt |-> 0, raised |-> FALSE] :
                 r \in Rounded(sc.x, places)}

(* the character U+2220 between modulus and angle *)
Angle == "angle"

(* lines 399-421: a + bi from the texts oa, ob and the rounded ra, rb *)
Rectangular(oa, ob, ra, rb) ==
    IF ra = Zero
    THEN IF rb = Zero THEN <<"0">>
         ELSE IF rb = One THEN <<"i">>
         ELSE IF rb = Norm(0 - 1, 0) THEN <<"-", "i">>
         ELSE ob \o <<"i">>
    ELSE IF rb.m > 0
    THEN IF rb = One THEN oa \o <<"+", "i">> ELSE oa \o <<"+">> \o ob \o <<"i">>
    ELSE IF rb.m < 0
    THEN IF rb = Norm(0 - 1, 0) THEN oa \o <<"-", "i">> ELSE oa \o ob \o <<"i">>
    ELSE oa

(* lines 427-433: modulus and angle *)
PolarText(oa, ob, ra, rb) ==
    IF rb = Zero THEN oa
    ELSE IF ra = Zero THEN <<"0">>
    ELSE oa \o <<Angle>> \o ob

(* lines 395-434: the texts pl_out can give at precision places; better    *)
(* raises for NaN (lines 397-398, 423-424) and so does pl_out              *)
pl_out(a, b, form, places) ==
    IF a.k = "nan" \/ b.k = "nan" THEN {[x |-> DC, bbmdt |-> 1, raised |-> TRUE]}
    ELSE {[x |-> IF form = 0 THEN Rectangular(oa.x, ob.x, ra, rb)
                 ELSE PolarText(oa.x, ob.x, ra, rb),
           bbmdt |-> 0, raised |-> FALSE] :
              oa \in better(a, places), ob \in better(b, places),
              ra \in Rounded(a, places), rb \in Rounded(b, places)}

-----------------------------------------------------------------------------
(* Bounds of the exploration *)

MaxToks == 3

MaxCalls == 2

MaxExp == 12

-----------------------------------------------------------------------------
(* The lines typed at the prompt and the values handed to better *)

(* a recognized name applied to a parenthesised argument *)
NameCalls == {n \o <<"(", "1", ")">> : n \in NamesLegal \ {NameLog}}
             \cup {NameLog \o <<"(", "2", ",", "8", ")">>}

(* operands of the postfix operators: digit runs and parenthesised groups *)
Operands == { <<"3">>, <<"1", "2">>, <<"(", "3", ")">>, <<"(", "-", "3", ")">> }

BinaryOps == {"^", "C", "P"}

Rewrites == {a \o <<"!">> : a \in Operands}
            \cup {a \o <<o>> \o b : a \in Operands, o \in BinaryOps, b \in Operands}

Framed == {<<"1", "+">> \o r \o <<"+", "1">> : r \in Rewrites}

ChainDigits == {"2", "3"}

Chains == {<<a, "^", b, "^", c>> : a \in ChainDigits, b \in ChainDigits, c \in ChainDigits}

(* a call, then a postfix operator *)
CallLefts == {
    <<"3", "!">>, <<"s", "i", "n", "(", "2", ")">>,
    <<"2", "^", "3">>, <<"a", "b", "s", "(", "2", ")">> }

PostfixTails == { <<"!">>, <<"^", "2">>, <<"C", "2">>, <<"P", "2">> }

CallForms == {l \o t : l \in CallLefts, t \in PostfixTails}

(* juxtapositions: a digit, a ")" or a "!" before "(", a name or a constant *)
Lefts == { <<"2">>, <<"(", "2", ")">>, <<"3", "!">> }

Rights == {
    <<"(", "3", ")">>, <<"s", "i", "n", "1">>, <<"c", "o", "s", "1">>,
    <<"t", "a", "n", "1">>, <<"a", "b", "s", "1">>, <<"l", "n", "2">>,
    <<"p", "i">>, <<"e">>, <<"A", "n", "s">> }

Products == {l \o r : l \in Lefts, r \in Rights}

(* calls followed or preceded by other operands *)
Closings == {
    <<"s", "i", "n", "2", "+", "3">>, <<"2", "s", "i", "n", "(", "3", ")">>,
    <<"s", "i", "n", "-", "(", "2", ")", "+", "3">>, <<"l", "o", "g", "(", "2", ",", "8", ")", "+", "1">>,
    <<"s", "i", "n", "-", "(", "2", ")", "+", "c", "o", "s", "3">>, <<"c", "o", "s", "2", "-", "l", "n", "3">>,
    <<"s", "i", "n", "-", "(", "2", "^", "3", ")">> }

Tokens == { <<"2">>, <<"(">>, <<")">>, <<"+">>, <<"-">>, <<"*">>, <<"/">>, <<"!">>, <<"^">>,
            <<"e">>, <<"s", "i", "n">> }

RECURSIVE TokSeqs(_)
TokSeqs(n) == IF n = 0 THEN {<<>>}
              ELSE LET r == TokSeqs(n - 1)
                   IN  r \cup {q \o t : q \in r, t \in Tokens}

(* a character outside the accepted ones, also right after 'p' and 'A' *)
Foreign == {
    <<"#">>, <<"2", "#">>, <<"#", "2">>, <<"p", "#">>,
    <<"A", "#">>, <<"A", "n", "#">>, <<"p", "i", "#">>, <<"A", "n", "s", "#">>,
    <<"s", "i", "n", "#">>, <<"2", "+", "x">>, <<"(", "f", ")">>, <<"2", "!", "#">>,
    <<"2", "^", " ">>, <<"s", "i", "#">> }

(* letter runs that are no name, and names written one after the other *)
LetterRuns == {
    <<"s">>, <<"s", "i">>, <<"s", "n", "2">>, <<"i", "n", "2">>,
    <<"s", "s", "i", "n", "2">>, <<"s", "i", "n", "n", "2">>, <<"l", "o", "2">>, <<"2", "+", "t", "a">>,
    <<"s", "i", "h", "(", "2", ")">>, <<"l", "n", "l", "n", "2">>, <<"s", "i", "n", "l", "n", "2">>, <<"c", "o", "s", "a", "b", "s", "2">>,
    <<"s", "i", "n", "h", "2">>, <<"2", "+", "s", "i", "+", "3">>, <<"a", "r", "c", "s", "i", "(", "1", ")">> }

(* texts the evaluation rejects, or whose value is NaN or infinite *)
Unvalued == {
    <<"2", "/", "0">>, <<"l", "n", "0">>, <<"2", "/", "(", "2", "-", "2", ")">>, <<"1", ",", "2">>,
    <<"0", "!", "-", "1">>, <<"a", "r", "c", "s", "i", "n", "2">> }

(* '**' and '//' after a constant, a postfix operator, a name, a call *)
Doubled == { <<"p", "i", "*", "*", "2">>, <<"A", "n", "s", "/", "/", "2">>, <<"2", "!", "*", "*", "3">>,
             <<"s", "i", "n", "*", "*", "2">>, <<"s", "i", "n", "(", "2", ")", "/", "/", "3">>, <<"2", "^", "3", "*", "*", "2">>,
             <<"(", "2", ")", "/", "/", "(", "3", ")">>, <<"e", "*", "*", "e">> }

(* line 508: the longest text inputx accepts *)
LengthLimit == 485

(* texts at the length limit and one character past it *)
Longest == { <<"1", ".">> \o Rep("0", LengthLimit - 2), <<"1", ".">> \o Rep("0", LengthLimit - 1),
             Rep("1", LengthLimit), Rep("1", LengthLimit + 1) }

Inputs == TokSeqs(MaxToks) \cup NameCalls \cup Rewrites \cup Framed \cup Chains
          \cup CallForms \cup Products \cup Closings
          \cup Foreign \cup LetterRuns \cup Unvalued \cup Doubled \cup Longest

Mantissas == {0 - 25, 0 - 1, 0, 1, 25, 12345}

Values == {Norm(m, k) : m \in Mantissas, k \in (0 - MaxExp)..MaxExp}

-----------------------------------------------------------------------------
(* State machine *)

(* no library call is under way *)
NoCall == [fn |-> <<>>, args |-> <<>>, sel |-> 0, out |-> <<>>, raised |-> FALSE, done |-> FALSE]

(* the program at its prompt, before anything is typed *)
Prompt ==
    /\ pc = "idle"
    /\ x = <<>>
    /\ pos = 0
    /\ loc = InitFrame
    /\ tout = <<>>
    /\ val = DCval
    /\ bbmdt = 0
    /\ Ans = [val |-> Norm(0, 0), int |-> TRUE]
    /\ s = 3
    /\ calls = 0
    /\ shown = <<>>
    /\ origin = NaN
    /\ prev = <<>>
    /\ mode = "b2"
    /\ DTip = 3
    /\ DTop = 3
    /\ DTfop = 3

(* no inverse function is searching *)
NoSearch == [fn |-> "", T |-> 0, out |-> 0, i |-> 0, dt |-> 0, at |-> "none"]

Init == Prompt /\ lib = NoCall /\ srch = NoSearch

(* lines 503-514: entry of inputx, the length checks against limit *)
Entry(inp, limit) ==
    /\ x' = inp
    /\ pos' = 1
    /\ calls' = calls + 1
    /\ prev' = tout
    /\ tout' = <<>>
    /\ val' = DCval
    /\ IF Len(inp) > limit
       THEN /\ loc' = [InitFrame EXCEPT !.out = DC]
            /\ bbmdt' = 1
            /\ pc' = "post"
       ELSE IF inp = <<>>
       THEN /\ loc' = [InitFrame EXCEPT !.out = DC]
            /\ bbmdt' = 0
            /\ pc' = "post"
       ELSE /\ loc' = InitFrame
            /\ bbmdt' = 0
            /\ pc' = "scan"
    /\ UNCHANGED <<Ans, s, shown, lib, DTip, DTop, DTfop, srch>>

(* the entry with >= for the > of line 508 *)
CallShort(inp) == Entry(inp, LengthLimit - 1)

(* lines 503-514 with the limit of line 508 *)
Call(inp) == Entry(inp, LengthLimit)

(* line 921: the caller passes a freshly typed line *)
Enter ==
    /\ pc = "idle"
    /\ \E inp \in Inputs : Call(inp)
    /\ UNCHANGED <<mode, origin>>

(* line 921 again: the normalized text of the last call is typed back *)
Reenter ==
    /\ pc = "done"
    /\ calls < MaxCalls
    /\ tout # DC
    /\ Call(tout)
    /\ UNCHANGED <<mode, origin>>

(* lines 335-369: better renders a value, or raises and returns nothing *)
Format ==
    /\ pc = "idle"
    /\ \E v \in Values \cup {NaN} : \E b \in better(v, s) :
           /\ shown' = IF b.raised THEN <<>> ELSE b.x
           /\ origin' = v
           /\ bbmdt' = b.bbmdt
           /\ pc' = IF b.raised THEN "raised" ELSE "shown"
    /\ UNCHANGED <<x, pos, loc, tout, val, Ans, s, calls, prev, lib, mode, DTip, DTop, DTfop, srch>>

(* line 921 again: the text better printed is typed back *)
Retype ==
    /\ pc = "shown"
    /\ Call(shown)
    /\ UNCHANGED <<mode, origin>>

(* lines 515-673, 708-709: one iteration of the for-loop, up to the *)
(* backward scan when the character is a postfix operator           *)
ScanChar ==
    /\ pc = "scan"
    /\ LET f == LoopBody(loc, x[pos], AnsText(Ans))
       IN  /\ loc' = f
           /\ pos' = pos + 1
           /\ pc' = IF f.brk THEN "post"
                    ELSE IF Rewriting(f) THEN "back"
                    ELSE IF pos = Len(x) THEN "post" ELSE "scan"
    /\ UNCHANGED <<x, tout, val, bbmdt, Ans, s, calls, shown, origin, prev, lib, mode, DTip, DTop, DTfop, srch>>

(* lines 674-709: one iteration of the backward scan, and after the *)
(* last one the end of the for-loop's iteration                     *)
BackChar ==
    /\ pc = "back"
    /\ LET g == BackStep(loc, loc.out[loc.sk])
       IN  IF loc.sk < Len(loc.out)
           THEN /\ loc' = [g EXCEPT !.sk = loc.sk + 1]
                /\ pc' = "back"
           ELSE /\ loc' = BackEnd(g)
                /\ pc' = IF pos > Len(x) THEN "post" ELSE "scan"
    /\ UNCHANGED <<x, pos, tout, val, bbmdt, Ans, s, calls, shown, origin, prev, lib, mode, DTip, DTop, DTfop, srch>>

(* lines 710-730, 739-740: after the loop *)
Close ==
    /\ pc = "post"
    /\ IF loc.out # DC
       THEN IF loc.legaldt = 1 /\ loc.legal \notin NamesLegal
            THEN /\ loc' = [loc EXCEPT !.out = DC]
                 /\ tout' = DC
                 /\ pc' = "done"
            ELSE /\ loc' = [loc EXCEPT !.out = Balance(loc)]
                 /\ tout' = Display(Balance(loc))
                 /\ pc' = "eval"
       ELSE /\ tout' = DC
            /\ pc' = "done"
            /\ UNCHANGED loc
    /\ val' = DCval
    /\ UNCHANGED <<x, pos, bbmdt, Ans, s, calls, shown, origin, prev, lib, mode, DTip, DTop, DTfop, srch>>

(* lines 731-738 with an exception handler that sets out alone *)
OutcomesTextKept(r, disp, bb) ==
    IF r.k \in {"num", "real"} THEN {[val |-> r, tout |-> disp, bbmdt |-> bb]}
    ELSE IF r.k = "nan" THEN {[val |-> DCval, tout |-> DC, bbmdt |-> 1]}
    ELSE {[val |-> DCval, tout |-> disp, bbmdt |-> bb]}

(* what lines 731-738 make of the evaluation: value, display text, bbmdt *)
Outcomes(r, disp, bb) ==
    LET ok == [val |-> r, tout |-> disp, bbmdt |-> bb]
        math == [val |-> DCval, tout |-> DC, bbmdt |-> 1]
        exc == [val |-> DCval, tout |-> DC, bbmdt |-> bb]
    IN  IF r.k \in {"num", "real"} THEN {ok}
        ELSE IF r.k = "nan" THEN {math}
        ELSE IF r.k = "err" THEN {exc}
        ELSE {[ok EXCEPT !.val = RealOf(0, FALSE)], math, exc}

(* lines 731-738: eval of the built text, the NaN test *)
Evaluate ==
    /\ pc = "eval"
    /\ \E o \in Outcomes(EvalText(loc.out), tout, bbmdt) :
           /\ val' = o.val
           /\ tout' = o.tout
           /\ bbmdt' = o.bbmdt
    /\ pc' = "done"
    /\ UNCHANGED <<x, pos, loc, Ans, s, calls, shown, origin, prev, lib, mode, DTip, DTop, DTfop, srch>>

Next == Enter \/ Reenter \/ Format \/ Retype \/ ScanChar \/ BackChar \/ Close \/ Evaluate

Spec == Init /\ [][Next]_vars


-----------------------------------------------------------------------------
(* Direct calls of the library: the modes hand numbers to a function and   *)
(* take what it returns.                                                   *)

MaxCoef == 3

(* integer coefficients *)
Coefs == {Norm(m, 0) : m \in (0 - MaxCoef)..MaxCoef}

(* numbers off the integers: halves, and values within 10^-13 of 0 and 2 *)
Fractions == { Norm(25, 0 - 1), Norm(0 - 25, 0 - 1), Norm(5, 0 - 1), Norm(1, 0 - 14),
               Norm(0 - 1, 0 - 14), Norm(1, 0 - 13), Norm(5, 0 - 14), Norm(6, 0 - 14),
               Norm(0 - 6, 0 - 14), Norm(0 - 1, 0 - 13) }

(* a number whose square is below the least float *)
Tiny == Norm(1, 0 - 170)

Arguments == Coefs \cup Fractions \cup {NaN, Norm(5, 0), Norm(12, 0)}

Elementary == Callable \ { <<"a","b","s">> }

NameTimes == <<"t","i","m","e","s">>

NameTransform == <<"t","r","a","n","s","f","o","r","m">>

NameF2 == <<"f","2">>

NameF3 == <<"f","3">>

NamePlOut == <<"p","l","_","o","u","t">>

(* numbers given to pl_out: integers, a fraction, values that round to 0 and 1 *)
ShownParts == Coefs \cup {Norm(25, 0 - 1), Norm(4, 0 - 4), Norm(0 - 4, 0 - 4), Norm(10004, 0 - 4),
                          Norm(25, 11), NaN}

Pending(fn, args, sel) ==
    [fn |-> fn, args |-> args, sel |-> sel, out |-> <<>>, raised |-> FALSE, done |-> FALSE]

(* the calls explored; sel = 1 asks f2 and f3 for the roots (y = 1), sel = 0 *)
(* for the derivative's part (z = 1)                                         *)
LibCalls ==
    {Pending(n, <<v>>, 0) : n \in {f \in Elementary : Arity(f) = 1}, v \in Arguments}
    \cup {Pending(n, <<v, w>>, 0) : n \in {f \in Elementary : Arity(f) = 2},
                                    v \in Arguments, w \in Arguments}
    \cup {Pending(NameTimes, <<a, b, n>>, 0) :
              a \in Coefs \cup {NaN}, b \in Coefs \cup {NaN}, n \in Coefs \cup {NaN}}
    \cup {Pending(NameTransform, <<a, b, t>>, 0) :
              a \in Coefs \cup {NaN}, b \in Coefs \cup {NaN}, t \in {Zero, One, NaN}}
    \cup {Pending(NameF2, <<a, b, c>>, y) :
              a \in Coefs \cup {NaN}, b \in Coefs \cup {NaN}, c \in Coefs \cup {NaN},
              y \in {0, 1}}
    \cup {Pending(NameF3, <<a, b, c, d>>, y) :
              a \in Coefs \cup {NaN}, b \in Coefs \cup {NaN}, c \in Coefs \cup {NaN},
              d \in Coefs \cup {NaN, Tiny}, y \in {0, 1}}
    \cup {Pending(NamePlOut, <<a, b>>, y) : a \in ShownParts, b \in ShownParts, y \in {0, 1}}

LibInit == Prompt /\ lib \in LibCalls /\ srch = NoSearch

(* the call returns r.out or raises; kept: the call leaves Ans alone *)
Handed(r, kept) ==
    /\ lib' = [lib EXCEPT !.out = r.out, !.raised = r.raised, !.done = TRUE]
    /\ Ans' = IF kept \/ r.raised \/ r.out = <<>> THEN Ans ELSE [val |-> r.out[1], int |-> FALSE]
    /\ UNCHANGED <<pc, x, pos, loc, tout, val, bbmdt, s, calls, shown, origin, prev,
                   mode, DTip, DTop, DTfop, srch>>

(* a call that stores its first result in Ans *)
ReturnStoring(r) == Handed(r, FALSE)

(* the call returns r.out or raises *)
Return(r) == Handed(r, TRUE)

(* lines 5-317: a function of one or two numbers *)
CallElementary ==
    /\ ~lib.done
    /\ lib.fn \in Elementary
    /\ Return(Returned(<<Apply(lib.fn, lib.args)>>, <<Apply(lib.fn, lib.args)>>))

(* lines 320-332 *)
CallTimes ==
    /\ ~lib.done
    /\ lib.fn = NameTimes
    /\ Return(times(lib.args[1], lib.args[2], lib.args[3]))

(* lines 372-392 *)
CallTransform ==
    /\ ~lib.done
    /\ lib.fn = NameTransform
    /\ Return(transform(lib.args[1], lib.args[2], lib.args[3]))

(* lines 437-456 *)
CallF2 ==
    /\ ~lib.done
    /\ lib.fn = NameF2
    /\ Return(f2(lib.args[1], lib.args[2], lib.args[3], lib.sel, 1 - lib.sel))

(* lines 459-500 *)
CallF3 ==
    /\ ~lib.done
    /\ lib.fn = NameF3
    /\ Return(f3(lib.args[1], lib.args[2], lib.args[3], lib.args[4], lib.sel, 1 - lib.sel))

(* lines 395-434: pl_out returns a text, or raises inside better; sel is its *)
(* parameter x                                                             *)
CallPlOut ==
    /\ ~lib.done
    /\ lib.fn = NamePlOut
    /\ \E r \in pl_out(lib.args[1], lib.args[2], lib.sel, s) :
           /\ shown' = IF r.raised THEN <<>> ELSE r.x
           /\ bbmdt' = r.bbmdt
           /\ lib' = [lib EXCEPT !.raised = r.raised, !.done = TRUE]
    /\ UNCHANGED <<pc, x, pos, loc, tout, val, Ans, s, calls, origin, prev,
                   mode, DTip, DTop, DTfop, srch>>

LibNext == CallElementary \/ CallTimes \/ CallTransform \/ CallF2 \/ CallF3 \/ CallPlOut

LibSpec == LibInit /\ [][LibNext]_vars

-----------------------------------------------------------------------------
(* The core called in any way: one call of inputx after another and the    *)
(* formatter, or one direct call of a library function.                    *)

CoreInit == Prompt /\ lib \in LibCalls \cup {NoCall} /\ srch = NoSearch

CoreNext == (lib = NoCall /\ Next) \/ LibNext

CoreSpec == CoreInit /\ [][CoreNext]_vars

-----------------------------------------------------------------------------
(* The main loop (lines 753-2207): a mode is chosen at the prompt, reads   *)
(* its numbers through inputx and ends at the prompt again.  Modeled are   *)
(* the modes s1 .. s4, r1 and c1 (sub-mode c11).                           *)

(* the lines typed to a mode: values in and out of 1..9, a fraction, a     *)
(* factorial, Ans, a math error, a syntax error and a foreign character    *)
ReplInputs == { <<"2">>, <<"0">>, <<"9">>, <<"2", ".", "5">>, <<"9", "+", "1">>, <<"3", "!">>,
                <<"A", "n", "s", "+", "1">>, <<"2", "/", "0">>, <<"2", "+">>, <<"#">> }

(* the inputx calls of one run of the main loop *)
MaxReads == 2

(* no value is held for the second number of a mode *)
NoValue == NaN

(* the text better gives for a value; the digits of a value that is not   *)
(* followed are not followed                                              *)
Shown(v, places) == IF IsNum(v) THEN {b.x : b \in better(v, places)} ELSE {<<>>}

(* the text pl_out gives for two numbers *)
Texts(a, b, form, places) ==
    IF IsNum(a) /\ IsNum(b) THEN {r.x : r \in pl_out(a, b, form, places)} ELSE {<<>>}

(* lines 919-921, 841-845, 959-979: the mode is chosen and its first line *)
(* is passed to inputx                                                    *)
Select(m, reads) ==
    /\ pc = "idle"
    /\ calls + reads <= MaxReads
    /\ mode' = m
    /\ origin' = NoValue
    /\ \E inp \in ReplInputs : Call(inp)

ModeR1 == Select("r1", 1)

ModeS1 == Select("s1", 1)

ModeC1 == Select("c1", 2)

(* lines 862-918: a settings mode; any other answer leaves the setting *)
Setting(cur, ip, first, second) == IF ip = first THEN 3 ELSE IF ip = second THEN 4 ELSE cur

(* lines 862-880 *)
ModeS2 ==
    /\ pc = "idle"
    /\ mode' = "s2"
    /\ \E ip \in {"s21", "s22", ""} : DTip' = Setting(DTip, ip, "s21", "s22")
    /\ UNCHANGED <<pc, x, pos, loc, tout, val, bbmdt, Ans, s, calls, shown, origin, prev, lib,
                   DTop, DTfop, srch>>

(* lines 881-899 *)
ModeS3 ==
    /\ pc = "idle"
    /\ mode' = "s3"
    /\ \E ip \in {"s31", "s32", ""} : DTop' = Setting(DTop, ip, "s31", "s32")
    /\ UNCHANGED <<pc, x, pos, loc, tout, val, bbmdt, Ans, s, calls, shown, origin, prev, lib,
                   DTip, DTfop, srch>>

(* lines 900-918 *)
ModeS4 ==
    /\ pc = "idle"
    /\ mode' = "s4"
    /\ \E ip \in {"s41", "s42", ""} : DTfop' = Setting(DTfop, ip, "s41", "s42")
    /\ UNCHANGED <<pc, x, pos, loc, tout, val, bbmdt, Ans, s, calls, shown, origin, prev, lib,
                   DTip, DTop, srch>>

(* lines 922-956 after inputx has returned: float(expression[0]) raises    *)
(* for "DC" and the handler of line 953 leaves Ans; reset: the handler     *)
(* clears Ans                                                              *)
R1Tail(reset) ==
    /\ pc = "done"
    /\ mode = "r1"
    /\ IF val.k \in {"num", "real"}
       THEN /\ shown' \in Shown(val, s)
            /\ bbmdt' = 0
            /\ Ans' = [val |-> val, int |-> FALSE]
       ELSE /\ Ans' = IF reset THEN [val |-> Zero, int |-> FALSE] ELSE Ans
            /\ UNCHANGED <<shown, bbmdt>>
    /\ pc' = "idle"
    /\ UNCHANGED <<x, pos, loc, tout, val, s, calls, origin, prev, lib, mode, DTip, DTop, DTfop, srch>>

(* mode r1 with a handler that clears Ans *)
FinishR1Clearing == R1Tail(TRUE)

(* lines 922-956 *)
FinishR1 == R1Tail(FALSE)

(* lines 845-860 after inputx has returned, lo being the 1 of line 848 *)
S1Tail(lo) ==
    /\ pc = "done"
    /\ mode = "s1"
    /\ IF val.k = "real" THEN s' \in {s} \cup lo..9
       ELSE IF IsNum(val) /\ val.e >= 0
               /\ Cmp(val, Norm(lo, 0)) >= 0 /\ Cmp(val, Norm(9, 0)) <= 0
       THEN s' = IntVal(val)
       ELSE s' = s
    /\ pc' = "idle"
    /\ UNCHANGED <<x, pos, loc, tout, val, bbmdt, Ans, calls, shown, origin, prev, lib,
                   mode, DTip, DTop, DTfop, srch>>

(* mode s1 with ks < 0 for the ks < 1 of line 848 *)
FinishS1FromZero == S1Tail(0)

(* lines 845-860 *)
FinishS1 == S1Tail(1)

(* lines 979-980: a is held and the line for b is passed to inputx; for    *)
(* "DC" float raises and the handler of line 1000 ends the mode            *)
ReadB ==
    /\ pc = "done"
    /\ mode = "c1"
    /\ origin = NoValue
    /\ IF val.k \in {"num", "real"}
       THEN /\ origin' = val
            /\ \E inp \in ReplInputs : Call(inp)
       ELSE /\ pc' = "idle"
            /\ UNCHANGED <<x, pos, loc, tout, val, bbmdt, Ans, s, calls, shown, origin, prev,
                           lib, DTip, DTop, DTfop, srch>>
    /\ UNCHANGED mode

(* lines 980-984: b is read, and pl_out, transform and pl_out give the    *)
(* line printed                                                           *)
FinishC1 ==
    /\ pc = "done"
    /\ mode = "c1"
    /\ origin # NoValue
    /\ IF val.k \in {"num", "real"}
       THEN /\ \E o1 \in Texts(origin, val, 0, s) :
                 \E o2 \in Texts(transform(origin, val, Zero).out[1],
                                 transform(origin, val, Zero).out[2], 1, s) :
                     shown' = o1 \o <<"=">> \o o2
            /\ bbmdt' = 0
       ELSE UNCHANGED <<shown, bbmdt>>
    /\ origin' = NoValue
    /\ pc' = "idle"
    /\ UNCHANGED <<x, pos, loc, tout, val, Ans, s, calls, prev, lib, mode, DTip, DTop, DTfop, srch>>

ReplNext == \/ ModeR1 \/ ModeS1 \/ ModeC1 \/ ModeS2 \/ ModeS3 \/ ModeS4
            \/ ScanChar \/ BackChar \/ Close \/ Evaluate
            \/ FinishR1 \/ FinishS1 \/ ReadB \/ FinishC1

ReplSpec == Init /\ [][ReplNext]_vars

-----------------------------------------------------------------------------
(* Mode c3 (lines 1134-1188) with DTip = 3 and DTop = 3: the numbers a, b  *)
(* and n read at lines 1140-1142 are the arguments of the record lib, sel  *)
(* is 1 once n has passed the test of line 1143.                           *)

NameC3 == <<"c", "3">>

(* the text of lines 1144 and 1165 *)
MathError == <<"math error">>

(* the numbers read: integers and a fraction for n *)
C3Reads ==
    {Pending(NameC3, <<a, b, n>>, 0) : a \in Coefs, b \in Coefs, n \in Coefs \cup {Norm(25, 0 - 1)}}

PowerInit == Prompt /\ lib \in C3Reads /\ srch = NoSearch

(* lines 1143-1146: n % 1 != 0 is a math error; o1 is the text of the base *)
ModeC3Check ==
    /\ lib.fn = NameC3
    /\ ~lib.done
    /\ lib.sel = 0
    /\ IF IsInt(lib.args[3])
       THEN /\ lib' = [lib EXCEPT !.sel = 1]
            /\ shown' \in Texts(lib.args[1], lib.args[2], 0, s)
       ELSE /\ lib' = [lib EXCEPT !.done = TRUE]
            /\ shown' = MathError
    /\ mode' = "c3"
    /\ UNCHANGED <<pc, x, pos, loc, tout, val, bbmdt, Ans, s, calls, origin, prev,
                   DTip, DTop, DTfop, srch>>

(* lines 1170-1176: the power by times, turned over for n < 0 when         *)
(* inverted: the conjugate over the square of the modulus                  *)
PowerCases(a, b, n, inverted) ==
    LET pw == times(a, b, AbsVal(n))
        r == Add(Mul(pw.out[1], pw.out[1]), Mul(pw.out[2], pw.out[2]))
    IN  IF pw.raised THEN pw
        ELSE IF n.m < 0 /\ inverted
        THEN Returned(<<Div(pw.out[1], r), Div(Neg(pw.out[2]), r)>>,
                      <<Div(pw.out[1], r), Div(Neg(pw.out[2]), r)>>)
        ELSE pw

(* lines 1170-1172 without the lines 1173-1176 *)
PowerNotInverted(a, b, n) == PowerCases(a, b, n, FALSE)

(* lines 1170-1176 *)
Power(a, b, n) == PowerCases(a, b, n, TRUE)

(* lines 1161-1182: r == 0 and n <= 0 is a math error before anything is   *)
(* computed, n == 0 prints 1, any other n prints the power; an exception   *)
(* ends the mode at line 1183                                              *)
ModeC3Power ==
    /\ lib.fn = NameC3
    /\ ~lib.done
    /\ lib.sel = 1
    /\ LET a == lib.args[1]
           b == lib.args[2]
           n == lib.args[3]
       IN  IF Eq0(Add(AbsVal(a), AbsVal(b))) /\ n.m <= 0
           THEN /\ lib' = [lib EXCEPT !.done = TRUE]
                /\ shown' = MathError
           ELSE IF n.m = 0
           THEN /\ lib' = [lib EXCEPT !.out = <<One>>, !.done = TRUE]
                /\ shown' = <<"1">>
           ELSE /\ lib' = [lib EXCEPT !.out = Power(a, b, n).out,
                                      !.raised = Power(a, b, n).raised, !.done = TRUE]
                /\ IF Power(a, b, n).raised THEN shown' = shown
                   ELSE shown' \in Texts(Power(a, b, n).out[1], Power(a, b, n).out[2], 0, s)
    /\ UNCHANGED <<pc, x, pos, loc, tout, val, bbmdt, Ans, s, calls, origin, prev,
                   mode, DTip, DTop, DTfop, srch>>

PowerNext == ModeC3Check \/ ModeC3Power

PowerSpec == PowerInit /\ [][PowerNext]_vars

-----------------------------------------------------------------------------
(* Mode f4 (lines 1668-2025): the roots of a x^4 + b x^3 + c x^2 + d x + f *)
(* for the integers a # 0, b, c, d and f read at lines 1672-1676, which    *)
(* are the arguments of the record lib.  DTfop is 3: complex roots are     *)
(* printed.                                                                *)

NameF4 == <<"f", "4">>

(* the text of line 2022 *)
SyntaxError == <<"syntax error">>

F4Reads ==
    {Pending(NameF4, <<a, b, c, d, f>>, 0) :
         a \in Coefs \ {Zero}, b \in Coefs, c \in Coefs, d \in Coefs, f \in Coefs}

QuarticInit == Prompt /\ lib \in F4Reads /\ srch = NoSearch

(* p / q against r / t for q, t > 0 and p, r >= 0, by continued fractions: *)
(* -1, 0, 1                                                                *)
RECURSIVE FracCmp(_, _, _, _)
FracCmp(p, q, r, t) ==
    IF p \div q # r \div t THEN (IF p \div q < r \div t THEN 0 - 1 ELSE 1)
    ELSE IF p % q = 0 \/ r % t = 0
    THEN (IF p % q = r % t THEN 0 ELSE IF p % q = 0 THEN 0 - 1 ELSE 1)
    ELSE FracCmp(t, r % t, q, p % q)

(* the sign of B ** 2 - 4 * A * C (line 1843) *)
DTSign(A, B, C) ==
    IF A = 0 \/ C = 0 THEN (IF B = 0 THEN 0 ELSE 1)
    ELSE IF Sgn(A) # Sgn(C) THEN 1
    ELSE IF B = 0 THEN 0 - 1
    ELSE FracCmp(Abs(B), 4 * Abs(A), Abs(C), Abs(B))

(* lines 1836-1843 *)
Quartic(a, b, c, d, f) ==
    LET D == 3 * b * b - 8 * a * c
        E == 0 - b * b * b + 4 * a * b * c - 8 * a * a * d
        F == 3 * b * b * b * b + 16 * a * a * c * c - 16 * a * c * b * b
             + 16 * a * a * b * d - 64 * a * a * a * f
    IN  [D |-> D, E |-> E, F |-> F,
         A |-> D * D - 3 * F,
         B |-> D * F - 9 * E * E,
         C |-> F * F - 3 * D * E * E,
         DT |-> DTSign(D * D - 3 * F, D * F - 9 * E * E, F * F - 3 * D * E * E)]

(* the branch of the chain of lines 1844, 1847, 1851, 1872, 1896 and 1920  *)
(* that fires: 1 .. 6, or 0 when none does                                 *)
F4Branch(q) ==
    IF Abs(q.D) + Abs(q.E) + Abs(q.F) = 0 THEN 1
    ELSE IF (q.D # 0 /\ q.E # 0 /\ q.F # 0) /\ Abs(q.A) + Abs(q.B) + Abs(q.C) = 0 THEN 2
    ELSE IF Abs(q.E) + Abs(q.F) = 0 /\ q.D # 0 THEN 3
    ELSE IF (q.A # 0 /\ q.B # 0 /\ q.C # 0) /\ q.DT = 0 THEN 4
    ELSE IF q.DT > 0 THEN 5
    ELSE IF q.DT < 0 THEN 6
    ELSE 0

(* the branch of the chain of lines 1925, 1931, 1958 and 1985 inside       *)
(* DT < 0: 1 .. 4, or 0 when none fires                                    *)
F4SubBranch(q) ==
    IF q.E = 0 /\ q.D > 0 /\ q.F > 0 THEN 1
    ELSE IF q.E = 0 /\ q.D < 0 /\ 0 < q.F THEN 2
    ELSE IF q.E = 0 /\ q.F < 0 THEN 3
    ELSE IF q.E # 0 THEN 4
    ELSE 0

(* the roots printed by a branch: lines 1846, 1850, 1855 and 1863, 1877    *)
(* and 1880-1887, 1904-1911, 1930 .. 2011                                  *)
F4Roots(branch) ==
    CASE branch = 0 -> <<>>
      [] branch = 1 -> <<"x=">>
      [] branch \in {2, 3} -> <<"x=", "x=">>
      [] branch = 4 -> <<"x=", "x=", "x=">>
      [] OTHER -> <<"x=", "x=", "x=", "x=">>

(* whether a branch can raise.  With DT > 0 and E = 0 the radicand         *)
(* (D + fi(z1, 1 / 3) + fi(z2, 1 / 3)) / 3 of lines 1900-1905 is zero but  *)
(* for the rounding of the two cube roots; below zero pow gives a complex  *)
(* number, kept by sgn(E) * pow(...) = 0j, and better raises TypeError at  *)
(* line 1904.  With E # 0 the radicand is above zero.                      *)
F4Raises(q) == IF F4Branch(q) = 5 /\ q.E = 0 THEN {TRUE, FALSE} ELSE {FALSE}

(* lines 1835-2022: the roots are printed by the branch that fires; an     *)
(* exception ends the mode with the text of line 2022                      *)
ModeF4Roots ==
    /\ lib.fn = NameF4
    /\ ~lib.done
    /\ LET q == Quartic(IntVal(lib.args[1]), IntVal(lib.args[2]), IntVal(lib.args[3]),
                        IntVal(lib.args[4]), IntVal(lib.args[5]))
       IN  \E raised \in F4Raises(q) :
               /\ lib' = [lib EXCEPT !.sel = F4Branch(q),
                                     !.out = IF F4Branch(q) = 6
                                             THEN <<Norm(F4SubBranch(q), 0)>> ELSE <<>>,
                                     !.raised = raised, !.done = TRUE]
               /\ shown' = IF raised THEN SyntaxError
                           ELSE IF F4Branch(q) = 6 /\ F4SubBranch(q) = 0 THEN <<>>
                           ELSE F4Roots(F4Branch(q))
    /\ mode' = "f4"
    /\ UNCHANGED <<pc, x, pos, loc, tout, val, bbmdt, Ans, s, calls, origin, prev,
                   DTip, DTop, DTfop, srch>>

QuarticNext == ModeF4Roots

QuarticSpec == QuarticInit /\ [][QuarticNext]_vars
-----------------------------------------------------------------------------
(* The searches of arcsin, arccos, arctan and ln (lines 82-183).  Each     *)
(* walks a candidate out towards the argument x: level i steps by a tenth  *)
(* of the step of level i - 1, upwards while dt is 0 and downwards while   *)
(* dt is 1, and an inner while-loop ends when the image of the candidate   *)
(* stops lying on the near side of x.  Candidates are counted in steps of  *)
(* the last level; the argument is held as T, twice the place where the    *)
(* image equals x, so that an odd T lies between two candidates.           *)

(* levels searched: range(1, 16) at lines 88, 111, 145, range(16) at line 168 *)
MaxLevel == 3

Searchers == {"arcsin", "arccos", "arctan", "ln"}

(* pi, and 100 for ln, in steps of the last level *)
Span == 10 ^ MaxLevel

Half == Span \div 2

(* pi / (10 ** i), 100 / (10 ** i) *)
Tenth(i) == 10 ^ (MaxLevel - i)

FirstLevel(fn) == IF fn = "ln" THEN 0 ELSE 1

(* out = -pi / 2 (line 84), out = 0 (lines 107, 137), out = -600 (line 164) *)
StartOut(fn) ==
    CASE fn = "arcsin" -> 0 - Half
      [] fn = "ln" -> 0 - 6 * Span
      [] OTHER -> 0

(* dt = 0 (lines 83, 107, 164); lines 141-144 for arctan *)
StartDt(fn, T) == IF fn = "arctan" /\ T < 0 THEN 1 ELSE 0

(* the arguments tried: every 97th place, the whole steps of the first    *)
(* level and the places next to them                                      *)
Tried(T) == T % 97 = 0 \/ T % Span = 0 \/ (T + 1) % Span = 0 \/ (T - 1) % Span = 0

(* the arguments in the domain: abs(x) <= 1 (lines 85, 108), abs(x) below  *)
(* tan(pi / 2 - 10 ** -15) (line 138), 0 < x < e ** 600 (line 165; the     *)
(* least positive float is e ** -745)                                      *)
Targets(fn) ==
    CASE fn = "arcsin" -> {T \in (0 - 2 * Half) .. (2 * Half) : Tried(T)}
      [] fn = "arccos" -> {T \in 0 .. (2 * Span) : Tried(T)}
      [] fn = "arctan" -> {T \in (1 - 2 * Half) .. (2 * Half - 1) : Tried(T)}
      [] OTHER -> {T \in (0 - 15 * Span) .. (12 * Span - 1) : Tried(T)}

(* the tangent has period pi: the candidate of arctan is kept within       *)
(* (-pi / 2, pi / 2], which is all its image depends on                    *)
Principal(fn, out) ==
    IF fn # "arctan" THEN out
    ELSE LET r == out % Span IN IF r > Half THEN r - Span ELSE r

Side(d) == IF d < 0 THEN 0 - 1 ELSE IF d > 0 THEN 1 ELSE 0

(* how the image of the candidate compares with x: -1 below, 0 equal, 1    *)
(* above.  sin on [-pi/2, pi/2], e ** out and tan within a period rise,    *)
(* cos on [0, pi] falls.  At pi / 2 the image atan(out) follows the        *)
(* rounding residue cos(out) of line 74.  Levels 1 and 2 meet pi / 2 only  *)
(* as 5 * (pi / 10), where the residue is 3.8e-16 and the image 2.6e15     *)
(* lies beyond every argument of the domain; a later level comes back to   *)
(* pi / 2 through sums of smaller steps, where the residue has either sign *)
(* and the image is huge or negative.                                      *)
Compare(fn, out, T, i) ==
    CASE fn = "arccos" -> {Side(T - 2 * out)}
      [] fn = "arctan" /\ out = Half -> IF i <= 2 THEN {IF T < 0 THEN 0 - 1 ELSE 1} ELSE {0 - 1, 1}
      [] OTHER -> {Side(2 * out - T)}

(* the side of x on which the loop of direction dt keeps walking: lines    *)
(* 91, 148, 171 and 120 walk while the image is below x, lines 97, 154,    *)
(* 177 and 114 while it is above                                           *)
NearSide(fn, dt) == IF (fn = "arccos") = (dt = 0) THEN 1 ELSE 0 - 1

(* lines 101, 124, 181: the image equals x; line 158 compares tan(x) with  *)
(* the candidate, equal at x = 0 = out                                     *)
Found(fn, out, T) == IF fn = "arctan" THEN T = 0 /\ out = 0 ELSE 2 * out = T

Entered(fn, T) ==
    [fn |-> fn, T |-> T, out |-> StartOut(fn), i |-> FirstLevel(fn),
     dt |-> StartDt(fn, T), at |-> "loop"]

Searches == UNION {{Entered(fn, T) : T \in Targets(fn)} : fn \in Searchers}

SearchInit == Prompt /\ lib = NoCall /\ srch \in Searches

(* one turn of an inner while-loop that moves the candidate: lines 91-92,  *)
(* 97-98, 114-115, 120-121, 148-149, 154-155, 171-172, 177-178             *)
SearchMove ==
    /\ srch.at = "loop"
    /\ NearSide(srch.fn, srch.dt) \in Compare(srch.fn, srch.out, srch.T, srch.i)
    /\ srch' = [srch EXCEPT !.out = Principal(srch.fn,
                    IF srch.dt = 0 THEN srch.out + Tenth(srch.i) ELSE srch.out - Tenth(srch.i))]
    /\ UNCHANGED <<pc, x, pos, loc, tout, val, bbmdt, Ans, s, calls, shown, origin, prev, lib,
                   mode, DTip, DTop, DTfop>>

(* the turn that ends the inner loop (lines 93-94, 99-100, ...), the test  *)
(* for equality after it and the next level, or the return                 *)
SearchTurn ==
    /\ srch.at = "loop"
    /\ \E c \in Compare(srch.fn, srch.out, srch.T, srch.i) : c # NearSide(srch.fn, srch.dt)
    /\ srch' = [srch EXCEPT !.dt = 1 - srch.dt,
                            !.i = IF Found(srch.fn, srch.out, srch.T) \/ srch.i = MaxLevel
                                  THEN srch.i ELSE srch.i + 1,
                            !.at = IF Found(srch.fn, srch.out, srch.T) \/ srch.i = MaxLevel
                                   THEN "done" ELSE "loop"]
    /\ UNCHANGED <<pc, x, pos, loc, tout, val, bbmdt, Ans, s, calls, shown, origin, prev, lib,
                   mode, DTip, DTop, DTfop>>

SearchNext == SearchMove \/ SearchTurn

SearchSpec == SearchInit /\ [][SearchNext]_vars /\ WF_vars(SearchNext)

-----------------------------------------------------------------------------
(* Properties *)

(* a call of inputx has left its loop: the built text is in loc.out *)
Scanned == pc \in {"eval", "done"}

(* two texts are the same expression to the evaluator *)
Same(a, b) == LET u == Parse(a)
                  v == Parse(b)
              IN  u.ok /\ v.ok /\ u.n = v.n

FactOf(a) == <<"f", "a", "c", "t", "(">> \o a \o <<")">>

OpName(o) == IF o = "^" THEN <<"f", "i">> ELSE IF o = "C" THEN <<"f", "c">> ELSE <<"f", "p">>

BinaryOf(o, a, b) == OpName(o) \o <<"(">> \o a \o <<",">> \o b \o <<")">>

(* each postfix form with the prefix call it stands for *)
Rewritten == {<<a \o <<"!">>, FactOf(a)>> : a \in Operands}
             \cup {<<a \o <<o>> \o b, BinaryOf(o, a, b)>> :
                      a \in Operands, o \in BinaryOps, b \in Operands}

(* each call operand with its prefix form *)
CallLeftForms == {
    <<<<"3", "!">>,
      <<"f", "a", "c", "t", "(", "3", ")">>>>,
    <<<<"s", "i", "n", "(", "2", ")">>,
      <<"s", "i", "n", "(", "2", ")">>>>,
    <<<<"a", "b", "s", "(", "2", ")">>,
      <<"a", "b", "s", "(", "2", ")">>>> }

TailOf(t, a) == IF t = <<"!">> THEN FactOf(a) ELSE BinaryOf(t[1], a, <<t[2]>>)

(* each line of Closings with the explicit form it stands for *)
ClosingForms == {
    <<<<"s", "i", "n", "2", "+", "3">>,
      <<"s", "i", "n", "(", "2", ")", "+", "3">>>>,
    <<<<"2", "s", "i", "n", "(", "3", ")">>,
      <<"2", "*", "s", "i", "n", "(", "3", ")">>>>,
    <<<<"s", "i", "n", "-", "(", "2", ")", "+", "3">>,
      <<"s", "i", "n", "(", "-", "(", "2", ")", ")", "+", "3">>>>,
    <<<<"l", "o", "g", "(", "2", ",", "8", ")", "+", "1">>,
      <<"l", "o", "g", "(", "2", ",", "8", ")", "+", "1">>>>,
    <<<<"s", "i", "n", "-", "(", "2", ")", "+", "c", "o", "s", "3">>,
      <<"s", "i", "n", "(", "-", "(", "2", ")", ")", "+", "c", "o", "s", "(", "3", ")">>>>,
    <<<<"c", "o", "s", "2", "-", "l", "n", "3">>,
      <<"c", "o", "s", "(", "2", ")", "-", "l", "n", "(", "3", ")">>>>,
    <<<<"s", "i", "n", "-", "(", "2", "^", "3", ")">>,
      <<"s", "i", "n", "(", "-", "(", "f", "i", "(", "2", ",", "3", ")", ")", ")">>>> }

(* C1: every recognized name applied to a parenthesised argument passes   *)
(* the scan, and the text built for evaluation is the name followed by    *)
(* the parenthesised argument.                                            *)
C1_NameCallAccepted == (Scanned /\ x \in NameCalls) => loc.out = x

(* C2: for a chain a^b^c of digit runs the built text is right-nested,    *)
(* the same expression as fi(a,fi(b,c)).                                  *)
C2_ChainRightNested ==
    \A a \in ChainDigits : \A b \in ChainDigits : \A c \in ChainDigits :
        (Scanned /\ x = <<a, "^", b, "^", c>>)
            => Same(loc.out, BinaryOf("^", <<a>>, BinaryOf("^", <<b>>, <<c>>)))

(* C3: a!, a^b, aCb and aPb, for operands that are digit runs or          *)
(* parenthesised groups, become fact(a), fi(a,b), fc(a,b) and fp(a,b)     *)
(* with exactly these arguments, and the text around the span stays.      *)
C3_PostfixRewritten ==
    \A r \in Rewritten :
        /\ (Scanned /\ x = r[1]) => Same(loc.out, r[2])
        /\ (Scanned /\ x = <<"1", "+">> \o r[1] \o <<"+", "1">>)
               => Same(loc.out, <<"1", "+">> \o r[2] \o <<"+", "1">>)

(* C4: a postfix operator whose left operand is a call built earlier in   *)
(* the scan takes the whole call, name included, as its operand.          *)
C4_CallOperandWhole ==
    \A l \in CallLeftForms : \A t \in PostfixTails :
        (Scanned /\ x = l[1] \o t) => Same(loc.out, TailOf(t, l[2]))

(* C5: a digit, ")" or "!" followed by "(", a name or a constant gets     *)
(* exactly one "*" between the two, in each of the nine combinations.     *)
C5_OneStarInserted ==
    (Scanned /\ x \in Products) => (loc.out # DC /\ Count(loc.out, "*") = 1)

(* C6: the call opened for a recognized function is closed right after    *)
(* its argument, so every later operand stays outside the call, also      *)
(* when the argument is a signed parenthesised group.                     *)
C6_CallClosedAfterArgument ==
    \A r \in ClosingForms : (Scanned /\ x = r[1]) => Same(loc.out, r[2])

(* C7: the normalized text of a successful call, fed back to inputx, is   *)
(* accepted and normalizes to itself.                                     *)
C7_Idempotent ==
    (Scanned /\ prev # <<>>) => (loc.out # DC /\ (pc = "eval" => tout = x))

(* the value r lies within 10^-s of v, absolutely or relative to v *)
Near(r, v) ==
    LET d == AbsVal(Sub(r, v))
        unit == Norm(1, 0 - s)
    IN  d.k = "num" /\ (Cmp(d, unit) <= 0 \/ Cmp(d, Mul(unit, AbsVal(v))) <= 0)

(* C8: the text better gives for a finite value is accepted by inputx     *)
(* and evaluates to that value within the rounding precision s.           *)
C8_RoundTrip ==
    (pc = "done" /\ origin.k = "num" /\ x = shown)
        => /\ loc.out # DC
           /\ LET r == EvalText(loc.out)
              IN  r.k \in {"real", "unk"} \/ (r.k = "num" /\ Near(r, origin))

(* C9: the text handed to the evaluator has as many "(" as ")".           *)
C9_ParenthesesBalanced ==
    pc = "eval" => Count(loc.out, "(") = Count(loc.out, ")")

(* C10: the text handed to the evaluator never holds two adjacent         *)
(* multiplicative operators.                                              *)
C10_NoAdjacentMultiplicative ==
    pc = "eval" => \A a \in {"*", "/"} : \A b \in {"*", "/"} : ~Contains(loc.out, <<a, b>>)


-----------------------------------------------------------------------------
(* Claims about the library functions *)

AllNaN(q) == \A j \in 1..Len(q) : q[j].k \in {"nan", "unk"}

(* the functions C11 names: those of one and two numbers, times, f2 and f3 *)
Propagating == Elementary \cup {NameTimes, NameF2, NameF3}

(* C11: each of the functions fact ... f3 returns, and does not raise,     *)
(* whatever numbers it is given, and when one of its numeric arguments is  *)
(* NaN every component of what it returns is NaN.                          *)
C11_NaNPropagates ==
    (lib.done /\ lib.fn \in Propagating)
        => /\ ~lib.raised
           /\ HasNaN(lib.args) => AllNaN(lib.out)

(* C12: better, given NaN, sets the math-error flag and returns a text to *)
(* display; it does not raise.                                            *)
C12_NaNDisplayed ==
    (pc \in {"shown", "raised"} /\ origin.k = "nan")
        => (pc = "shown" /\ bbmdt = 1 /\ shown # <<>>)

-----------------------------------------------------------------------------
(* Claims about the failures of inputx *)

NameLetter(q, j) ==
    /\ q[j] \in FnLetters
    /\ ~(j > 1 /\ q[j - 1] = "p" /\ q[j] = "i")
    /\ ~(j > 1 /\ q[j - 1] = "A" /\ q[j] = "n")
    /\ ~(j > 2 /\ q[j - 2] = "A" /\ q[j - 1] = "n" /\ q[j] = "s")

(* positions i..j of q are a maximal run of such letters *)
MaximalRun(q, i, j) ==
    /\ \A h \in i..j : NameLetter(q, h)
    /\ i = 1 \/ ~NameLetter(q, i - 1)
    /\ j = Len(q) \/ ~NameLetter(q, j + 1)

(* what is left of the run r from its k-th letter on, when the letters read *)
(* so far are dropped each time they spell a recognized name                *)
RECURSIVE Leftover(_, _, _)
Leftover(r, k, buf) ==
    IF k > Len(r) THEN buf
    ELSE Leftover(r, k + 1, IF buf \o <<r[k]>> \in NamesLegal THEN <<>> ELSE buf \o <<r[k]>>)

Rejected == pc = "done" /\ loc.out = DC /\ tout = DC /\ val = DCval

C15_ForeignRejected ==
    (pc \in {"eval", "done"} /\ Len(x) \in 1..LengthLimit
       /\ \E j \in 1..Len(x) : x[j] \notin Alphabet)
        => Rejected

(* a foreign character right after 'p' *)
C15_Witness == Rejected /\ x = <<"p", "#">>

(* C16: the empty text and every text of more than 485 characters fail   *)
(* with "DC" before a character is processed, and no text of 1 to 485    *)
(* characters ends before its first character is processed.              *)
C16_LengthBoundExact ==
    pc \in {"scan", "back", "post", "eval", "done"} =>
        IF Len(x) = 0 \/ Len(x) > LengthLimit
        THEN /\ pos = 1
             /\ loc = [InitFrame EXCEPT !.out = DC]
             /\ pc \in {"post", "done"}
             /\ pc = "done" => (tout = DC /\ val = DCval)
        ELSE pc \in {"post", "eval", "done"} => pos > 1

(* a text of exactly 485 characters is scanned to its end and valued *)
C16_Witness == pc = "done" /\ Len(x) = LengthLimit /\ pos = LengthLimit + 1 /\ tout # DC

(* C17: an input holding '**' or '//' fails with "DC" and is not *)
(* evaluated, whatever stands before or after the pair.          *)
C17_DoubledOperatorRejected ==
    (pc \in {"eval", "done"}
       /\ (Contains(x, <<"*", "*">>) \/ Contains(x, <<"/", "/">>)))
        => Rejected

(* '//' between two operands *)
C17_Witness == Rejected /\ x = <<"2", "/", "/">>

NameFact == <<"f","a","c","t">>

RECURSIVE ProductUpTo(_)
(* n! as the product 1 * 2 * ... * n *)
ProductUpTo(n) == IF n = 0 THEN 1 ELSE n * ProductUpTo(n - 1)

(* a finished call fact(a) that did not raise *)
FactReturned == lib.done /\ lib.fn = NameFact /\ ~lib.raised /\ Len(lib.out) = 1

(* a is a decimal and an integer 0..12, whose factorial is followed exactly *)
SmallNatural(a) == a.k = "num" /\ a.e >= 0 /\ a.m >= 0 /\ Mag(a) <= 2 /\ IntVal(a) <= 12

(* |a| < 5 * 10^-14: round(a, 13) is 0 *)
RoundsToZero(a) == a.k = "num" /\ Cmp(AbsVal(a), Norm(5, 0 - 14)) < 0

(* a decimal more than 5 * 10^-14 away from every integer: one of at most  *)
(* 13 decimals that is no integer, or one below 1 in magnitude and above   *)
(* 5 * 10^-14                                                              *)
OffTheIntegers(a) ==
    /\ a.k = "num" /\ a.e < 0
    /\ (a.e >= 0 - 13 \/ Mag(a) <= 0)
    /\ Cmp(AbsVal(a), Norm(5, 0 - 14)) > 0

(* a decimal below -5 * 10^-14 *)
BelowZero(a) == a.k = "num" /\ Cmp(a, Norm(0 - 5, 0 - 14)) < 0

(* C18, as stated: fact(n) is n! for every non-negative integer n, with    *)
(* fact(0) = 1, and the NaN sentinel for every negative argument, every    *)
(* non-integral argument and NaN.                                          *)
C18_FactorialStrict ==
    (lib.done /\ lib.fn = NameFact) =>
        /\ FactReturned
        /\ SmallNatural(lib.args[1]) =>
               lib.out[1] = Norm(ProductUpTo(IntVal(lib.args[1])), 0)
        /\ (lib.args[1].k = "nan"
                \/ (lib.args[1].k = "num" /\ (lib.args[1].m < 0 \/ lib.args[1].e < 0))) =>
               AllNaN(lib.out)

(* C18, amended: fact(a) is n! for every a within 5 * 10^-14 of a          *)
(* non-negative integer n, as a is rounded to 13 decimals first, with      *)
(* fact(0) = 1; it is the NaN sentinel for NaN, for every a below          *)
(* -5 * 10^-14 and for every a more than 5 * 10^-14 away from every        *)
(* integer; and it never raises.                                           *)
C18_FactorialOfRounded ==
    (lib.done /\ lib.fn = NameFact) =>
        /\ FactReturned
        /\ SmallNatural(lib.args[1]) =>
               lib.out[1] = Norm(ProductUpTo(IntVal(lib.args[1])), 0)
        /\ RoundsToZero(lib.args[1]) => lib.out[1] = One
        /\ (lib.args[1].k = "nan" \/ BelowZero(lib.args[1]) \/ OffTheIntegers(lib.args[1])) =>
               lib.out[1] = NaN

(* fact(10^-14) has returned 1 *)
C18_Witness ==
    /\ lib.done /\ lib.fn = NameFact /\ ~lib.raised
    /\ lib.args = <<Norm(1, 0 - 14)>> /\ lib.out = <<One>>

(* a finished call f3(a, b, c, d, 1, 0) on integers with a # 0 *)
CubicSolved ==
    /\ lib.done /\ lib.fn = NameF3 /\ lib.sel = 1
    /\ \A j \in 1..4 : IsInt(lib.args[j])
    /\ lib.args[1] # Zero

(* A = b^2 - 3ac, B = bc - 9ad, C = c^2 - 3bd and DT = B^2 - 4AC of integers *)
InvA(a, b, c, d) == b * b - 3 * a * c

InvB(a, b, c, d) == b * c - 9 * a * d

InvC(a, b, c, d) == c * c - 3 * b * d

InvDT(a, b, c, d) ==
    InvB(a, b, c, d) * InvB(a, b, c, d) - 4 * InvA(a, b, c, d) * InvC(a, b, c, d)

(* every entry of q is a number, as far as the entry is followed *)
AllReal(q) == \A j \in 1..Len(q) : q[j].k \in {"num", "real", "unk"}

(* the result out has the shape the invariants of a x^3 + b x^2 + c x + d fix *)
CubicShape(a, b, c, d, out) ==
    IF InvA(a, b, c, d) = 0 /\ InvB(a, b, c, d) = 0
    THEN /\ Len(out) = 1
         /\ out[1].k \in {"num", "real"}
         /\ out[1].k = "num" => Mul(Norm(3 * a, 0), out[1]) = Norm(0 - b, 0)
    ELSE IF InvDT(a, b, c, d) > 0
    THEN Len(out) = 4 /\ out[4] = Neg(out[3])
    ELSE IF InvDT(a, b, c, d) = 0
    THEN Len(out) = 2
    ELSE Len(out) = 3

PolarAsked ==
    /\ lib.done /\ lib.fn = NameTransform
    /\ lib.args[3] = Zero /\ IsNum(lib.args[1]) /\ IsNum(lib.args[2])

(* C20: transform(a, b, 0) returns [r, theta] with r the Euclidean norm    *)
(* sqrt(a^2 + b^2), hence r >= 0, and theta in (-pi, pi], for every real   *)
(* pair, pairs with b = 0 and pairs with a < 0 included: r is not below 0, *)
(* r^2 is a^2 + b^2 where r is followed exactly, and the angle of a pair   *)
(* with a < 0 is not 0.                                                    *)
C20_PolarModulus ==
    PolarAsked =>
        /\ ~lib.raised
        /\ Len(lib.out) = 2
        /\ ~Lt0(lib.out[1])
        /\ IsNum(lib.out[1]) =>
               Mul(lib.out[1], lib.out[1])
                   = Add(Mul(lib.args[1], lib.args[1]), Mul(lib.args[2], lib.args[2]))
        /\ Lt0(lib.args[1]) => lib.out[2] # Zero

-----------------------------------------------------------------------------
(* better: the rendering chosen *)

(* the text t is mantissa*10^exponent or 10^exponent, the exponent in      *)
(* parentheses when it is negative                                         *)
ScientificNegative(t) == Contains(t, <<"1", "0", "^", "(", "-">>)

ScientificPositive(t) == Contains(t, <<"1", "0", "^">>) /\ ~Contains(t, <<"(">>)

(* a plain decimal: no power of ten in the text *)
PlainDecimal(t) == ~Contains(t, <<"^">>)

(* C21: better(x) chooses its rendering by the magnitude |x| alone, for    *)
(* both signs of x: "0" when |x| < 10^-10, scientific form with a negative *)
(* exponent when 10^-10 <= |x| < 10^-5, scientific form when |x| > 10^10,  *)
(* a plain decimal otherwise.                                              *)
C21_RenderingByMagnitude ==
    (pc = "shown" /\ IsNum(origin)) =>
        IF Cmp(AbsVal(origin), Norm(1, 0 - 10)) < 0 THEN shown = <<"0">>
        ELSE IF Cmp(AbsVal(origin), Norm(1, 0 - 5)) < 0 THEN ScientificNegative(shown)
        ELSE IF Cmp(AbsVal(origin), Norm(1, 10)) > 0 THEN ScientificPositive(shown)
        ELSE PlainDecimal(shown)

-----------------------------------------------------------------------------
(* The main loop: Ans and the settings *)

(* mode r1 is about to end with a value: inputx returned a number *)
R1Succeeds == pc = "done" /\ mode = "r1" /\ val.k \in {"num", "real"} /\ tout # DC

(* C22: over any sequence of modes Ans, initially 0, changes only when     *)
(* mode r1 completes a successful evaluation, and then becomes that        *)
(* evaluation's result; a failed r1 input and every other mode, the modes  *)
(* that read their numbers through inputx included, leave Ans unchanged.   *)
C22_AnsOnlyByR1 ==
    [][ /\ Ans' # Ans => R1Succeeds
        /\ (R1Succeeds /\ pc' = "idle") => Ans' = [val |-> val, int |-> FALSE] ]_vars

(* r1 has stored 2.5 and a later mode s1 has ended with Ans still 2.5 *)
C22_Witness ==
    /\ pc = "idle" /\ mode = "s1" /\ calls = 2
    /\ Ans = [val |-> Norm(25, 0 - 1), int |-> FALSE]

(* C23: the core never mutates the caller-owned settings: every call of    *)
(* inputx, better, pl_out, transform, f2, f3 and of the elementary         *)
(* functions leaves s, DTip, DTop, DTfop and Ans unchanged, on success and *)
(* on failure.                                                             *)
C23_SettingsKept ==
    [][ /\ s' = s /\ DTip' = DTip /\ DTop' = DTop /\ DTfop' = DTfop /\ Ans' = Ans ]_vars

(* f2(0, 1, 1) has raised, with the settings as they were *)
C23_Witness ==
    /\ lib.done /\ lib.fn = NameF2 /\ lib.raised
    /\ s = 3 /\ DTip = 3 /\ DTop = 3 /\ DTfop = 3 /\ Ans = [val |-> Zero, int |-> TRUE]

(* C30: in every reachable state of the main loop s is an integer in 1..9 *)
(* (initially 3): mode s1 changes s only when the entered expression      *)
(* evaluates to an integer in [1, 9]; an input out of range, not integral *)
(* or failing in inputx leaves s unchanged.                               *)
C30_PrecisionInRange ==
    /\ [](s \in 1..9)
    /\ [][ s' # s =>
             /\ pc = "done" /\ mode = "s1" /\ tout # DC
             /\ IsNum(val) /\ val.e >= 0
             /\ Cmp(val, One) >= 0 /\ Cmp(val, Norm(9, 0)) <= 0
             /\ s' = IntVal(val) ]_vars

(* mode s1 has set s to 9 *)
C30_Witness == pc = "idle" /\ mode = "s1" /\ s = 9

-----------------------------------------------------------------------------
(* sin and cos: the sign of the result *)

NameSin == <<"s","i","n">>

NameCos == <<"c","o","s">>

(* the sign of the true sine of x, by the quadrant of abs(x) and the sign of x *)
TrueSinSign(v) == IF QuadrantOf(v) % 4 \in {0, 1} THEN Sgn(v.m) ELSE 0 - Sgn(v.m)

(* the sign of the true cosine of x: positive in the quadrants 0 and 3 *)
TrueCosSign(v) == IF QuadrantOf(v) % 4 \in {0, 3} THEN 1 ELSE 0 - 1

(* C24: for every real x with |x| <= 10^10 the sign of sin(x) and of      *)
(* cos(x) is the sign of the true sine and cosine of x, as fixed by the   *)
(* quadrant of x reduced modulo 2 pi into (-pi, pi].                      *)
C24_SignByQuadrant ==
    (lib.done /\ lib.fn \in {NameSin, NameCos} /\ QuadrantOf(lib.args[1]) >= 0
              /\ lib.args[1] # Zero) =>
        /\ ~lib.raised
        /\ lib.out[1].k = "real"
        /\ lib.fn = NameSin => lib.out[1].m = TrueSinSign(lib.args[1])
        /\ lib.fn = NameCos => lib.out[1].m = TrueCosSign(lib.args[1])

-----------------------------------------------------------------------------
(* fi: powers of a negative base *)

NameFi == <<"f","i">>

(* a finished call fi(x, n) on two decimals whose result is followed *)
PowerAsked ==
    /\ lib.done /\ lib.fn = NameFi /\ IsNum(lib.args[1]) /\ IsNum(lib.args[2])
    /\ \A j \in 1..Len(lib.out) : lib.out[j].k # "unk"

(* (-1)^p * (-x)^n for x < 0 and an integer n = p >= 0 *)
SignedPower(v, n) ==
    IF IntVal(n) % 2 = 0 THEN PowNat(Neg(v), IntVal(n)) ELSE Neg(PowNat(Neg(v), IntVal(n)))

(* n = p/q in lowest terms with q even: a decimal with an odd last digit  *)
(* behind the point                                                       *)
EvenDenominator(n) == n.e < 0 /\ n.m % 2 # 0

(* C25: for a negative base x and a rational n = p/q in lowest terms,     *)
(* fi(x, n) is real exactly when q is odd, and then (-1)^p * (-x)^n; for  *)
(* an even q it is the NaN sentinel.  For x > 0 it is x^n, for x = 0 and  *)
(* n > 0 it is 0, and for x = 0 and n <= 0 the NaN sentinel.              *)
C25_SignedPower ==
    PowerAsked =>
        /\ ~lib.raised
        /\ (lib.args[1].m < 0 /\ IsInt(lib.args[2]) /\ lib.args[2].m >= 0) =>
               lib.out[1] = SignedPower(lib.args[1], lib.args[2])
        /\ (lib.args[1].m < 0 /\ EvenDenominator(lib.args[2])) => lib.out[1] = NaN
        /\ (lib.args[1].m > 0 /\ IsInt(lib.args[2]) /\ lib.args[2].m >= 0) =>
               lib.out[1] = PowNat(lib.args[1], IntVal(lib.args[2]))
        /\ (lib.args[1].m = 0 /\ lib.args[2].m > 0) => lib.out[1] = Zero
        /\ (lib.args[1].m = 0 /\ lib.args[2].m <= 0) => lib.out[1] = NaN

-----------------------------------------------------------------------------
(* C26: every search of arcsin, arccos, arctan and ln on an argument of    *)
(* its domain comes to its end: a search that is in its loops reaches its  *)
(* return, whatever the images of its candidates are.                      *)
C26_SearchTerminates == (srch.at = "loop") ~> (srch.at = "done")

(* (a + bi)^k for integers a, b and k >= 1, as a pair of integers *)
RECURSIVE ComplexPower(_, _, _)
ComplexPower(a, b, k) ==
    IF k = 1 THEN <<a, b>>
    ELSE LET h == ComplexPower(a, b, k - 1)
         IN  <<h[1] * a - h[2] * b, h[1] * b + h[2] * a>>

(* mode c3 has finished on the integers a, b and n *)
C3Finished == lib.fn = NameC3 /\ lib.done /\ IsInt(lib.args[3])

(* v times the integer d is the integer p; the digits of a quotient with   *)
(* no finite decimal expansion are not followed, its sign is               *)
Quotient(v, p, d) ==
    IF IsNum(v) THEN Mul(v, Norm(d, 0)) = Norm(p, 0)
    ELSE v.k = "real" /\ (v.m = 0 \/ v.m = Sgn(p))

F4Finished == lib.fn = NameF4 /\ lib.done

(* C28: for every quartic with a # 0 exactly one branch of the root chain  *)
(* fires and, inside DT < 0, exactly one sub-branch, so that the roots are *)
(* printed, once.                                                          *)
C28_OneRootResult ==
    F4Finished =>
        /\ lib.sel \in 1..6
        /\ lib.sel = 6 => lib.out[1].m \in 1..4
        /\ ~lib.raised
        /\ shown = F4Roots(lib.sel)

(* f3 has returned or raised on the roots of a cubic with numbers for its  *)
(* coefficients and a # 0                                                  *)
CubicAsked ==
    /\ lib.done /\ lib.fn = NameF3 /\ lib.sel = 1
    /\ \A j \in 1..4 : IsNum(lib.args[j])
    /\ lib.args[1] # Zero

(* C29: for every cubic with a # 0 the guards of f3 keep its arithmetic    *)
(* defined: nothing raises, the branch DT = 0 (two roots) is entered only  *)
(* with A # 0 and the branch DT < 0 (three roots) only with A > 0.         *)
C29_GuardsKeepDefined ==
    CubicAsked =>
        LET A == CubicA(lib.args[1], lib.args[2], lib.args[3])
        IN  /\ ~lib.raised
            /\ Len(lib.out) = 2 => (Decided(A) /\ ~Eq0(A))
            /\ Len(lib.out) = 3 => Gt0(A)
=============================================================================
